---- MODULE Spec2Model ----
\* A model of the uiflow engine (createFlowChannel, defineFlow, FlowRunner).
\* The FlowRunner is a React function component: its body is the Render action,
\* its passive effects are the RunEffects action, state-hook updates are queued
\* in `pend` and applied by the next Render, and every asynchronous callback
\* (action, onOutput, channel resolver) is a task that settles in a later step.
EXTENDS Integers, FiniteSets, Sequences, Bags, TLC

VARIABLES flow, channel, runner

vars == <<flow, channel, runner>>

\* ---------------------------------------------------------------- bounds
\* Callbacks (action, onOutput, resolver) of one runner in flight at a time.
MaxTasks == 1

\* Calls of subscribe on one channel.
MaxRegs == 3

\* ---------------------------------------------------------------- universe
Chans == DOMAIN channel
Keys == {"refresh", "counter"}
NoChan == "-"

\* A key every object literal inherits a member for (Object.prototype.toString),
\* the value a lookup of it finds in an object without such an own key, and the
\* keys an EventChannels map may have.
InheritedKeys == {"toString"}
Member == "member"
AllKeys == Keys \cup InheritedKeys
NoStep == "-"
Void == "void"
ChanVals == {0, 1}
Vids == 0..(MaxTasks + 3)

\* Step descriptors: a descriptor carries `view` and/or `action`, and an action
\* step an optional action-time render mode.
UiStep == [view |-> TRUE, action |-> FALSE, render |-> "none"]
ActionStep(mode) == [view |-> FALSE, action |-> TRUE, render |-> mode]

\* flow.steps, and the channel keys flow.channelTransitions has a resolver for.
steps == flow.steps
StepNames == DOMAIN steps
channelTransitions == flow.channelTransitions

\* What a callback may return as next step: a step, an unknown name, nothing.
NextVals == StepNames \cup {"missingStep", Void}

\* An EventChannels map, or undefined (defined = FALSE).
Undefined == [defined |-> FALSE, m |-> [k \in AllKeys |-> NoChan]]
MapOf(f) == [defined |-> TRUE, m |-> [k \in AllKeys |-> IF k \in DOMAIN f THEN f[k] ELSE NoChan]]
KeysOf(map) == {k \in AllKeys : map.m[k] # NoChan}

\* A data object: one top-level field of domain and one of internal.
ZeroData == [domain |-> 0, internal |-> 0]

\* In place of a field value: the object is not one of the runner's own but the
\* object held outside the runner (the caller's initialData object for domain,
\* the object createInternalData returned for internal), where its field lives.
Outer == -1
DataVals == {0, 1}
NoPend == [dirty |-> FALSE, step |-> NoStep, busy |-> "-", tick |-> FALSE]
NoInput == [seen |-> [k \in AllKeys |-> -1], data |-> ZeroData]
NoView == [kind |-> "none", step |-> NoStep, busy |-> FALSE, input |-> NoInput]
NoClosure == [step |-> NoStep, data |-> 0]

\* ---------------------------------------------------------------- channel
\* createFlowChannel: get
get(c) == channel[c].value

\* The listeners one subscription effect of runner r adds to channel c for the
\* resolved map `deps`: one per key bound to c.
listenersOf(r, deps, c) == {[r |-> r, key |-> k] : k \in {j \in KeysOf(deps) : deps.m[j] = c}}

\* createFlowChannel: subscribe / the returned unsubscribe, on the listener set
subscribe(ls, new) == ls \cup new
unsubscribe(ls, old) == ls \ old

\* ---------------------------------------------------------------- defineFlow
\* defineFlow accepts (steps, options) when options.start is truthy and a key of
\* steps; the definition it returns.
\* Property names every steps object inherits from Object.prototype (one stands
\* for all of them), and the truthiness of `stepMap[name]`: an own key (its
\* descriptor is an object) or an inherited member.
Inherited == {"toString"}
hasStep(stepMap, name) == name \in DOMAIN stepMap \/ name \in Inherited

\* !(!options.start || !steps[options.start])
defineFlowOk(stepMap, start) == start # "" /\ hasStep(stepMap, start)

\* The object defineFlow returns; createInternalData is NoFactory when absent.
NoFactory == "none"
defineFlowWith(stepMap, options) ==
    [steps |-> stepMap, start |-> options.start,
     channelTransitions |-> options.channelTransitions,
     createInternalData |-> options.createInternalData]
defineFlow(stepMap, start, resolvers) ==
    defineFlowWith(stepMap, [start |-> start, channelTransitions |-> resolvers,
                             createInternalData |-> NoFactory])

\* ---------------------------------------------------------------- runner helpers
\* (mutant) a descriptor classified by its `action` alone.
isActionStep_anyAction(s) == s \in StepNames /\ steps[s].action

isActionStep(s) == s \in StepNames /\ steps[s].action /\ ~steps[s].view

\* Data objects referenced by the hook state, a closure or a task in flight.
\* Objects are numbered in creation order; the state's object is the newest.
InUse(R) == {R.data} \cup {t.data : t \in BagToSet(R.tasks)}
               \cup (IF R.subClosure.step = NoStep THEN {} ELSE {R.subClosure.data})
FreshVid(R) == R.data + 1

\* Unreferenced data objects are collected and the rest renumbered.
Gc(R) ==
    LET used == InUse(R)
        ren(v) == Cardinality({w \in used : w < v})
        old(n) == CHOOSE v \in used : ren(v) = n
        ts == BagToSet(R.tasks)
        mv(t) == [t EXCEPT !.data = ren(t.data)]
    IN [R EXCEPT !.data = ren(R.data),
                 !.subClosure = IF R.subClosure.step = NoStep THEN NoClosure
                                ELSE [R.subClosure EXCEPT !.data = ren(@)],
                 !.tasks = [u \in {mv(t) : t \in ts} |-> R.tasks[CHOOSE t \in ts : mv(t) = u]],
                 !.objs = [n \in Vids |-> IF n < Cardinality(used) THEN R.objs[old(n)]
                                          ELSE ZeroData]]

\* getResolvedChannels: the resolved map from the previous resolved map, the
\* incoming prop and the strategy.
sameMap(prev, candidate) ==
    /\ Cardinality(KeysOf(prev)) = Cardinality(KeysOf(candidate))
    /\ \A k \in KeysOf(candidate) : prev.m[k] = candidate.m[k]

\* (mutant) the sticky branch taking the incoming instance of every key.
stickyCandidate_incoming(prev, incoming) == incoming

\* The sticky branch: candidate[key] = prev?.[key] ?? channel.
stickyCandidate(prev, incoming) ==
    MapOf([k \in AllKeys |->
        IF incoming.m[k] = NoChan THEN NoChan
        ELSE IF prev.defined /\ prev.m[k] # NoChan THEN prev.m[k]
        ELSE IF prev.defined /\ k \in InheritedKeys THEN Member
        ELSE incoming.m[k]])

\* (mutant) getResolvedChannels taking the sticky branch under either strategy.
getResolvedChannels_stickyOnly(prev, incoming, strategy) ==
    IF ~incoming.defined THEN Undefined
    ELSE LET candidate == stickyCandidate(prev, incoming)
         IN IF prev.defined /\ sameMap(prev, candidate) THEN prev ELSE candidate

\* (mutant) getResolvedChannels keeping the previous map when none is given.
getResolvedChannels_keepsPrev(prev, incoming, strategy) ==
    IF ~incoming.defined THEN prev
    ELSE LET candidate == IF strategy = "sticky"
                          THEN stickyCandidate(prev, incoming)
                          ELSE incoming
         IN IF prev.defined /\ sameMap(prev, candidate) THEN prev ELSE candidate

getResolvedChannels(prev, incoming, strategy) ==
    IF ~incoming.defined THEN Undefined
    ELSE LET candidate == IF strategy = "sticky"
                          THEN stickyCandidate(prev, incoming)
                          ELSE incoming
         IN IF prev.defined /\ sameMap(prev, candidate) THEN prev ELSE candidate

\* (mutant) getResolvedChannels without the dedup check: a new candidate object
\* on every evaluation with a defined map.
returnsPrev_noDedup(prev, incoming, strategy) == ~incoming.defined /\ ~prev.defined

\* Whether the value getResolvedChannels returns is the object it returned to
\* the previous evaluation (`return prev`, or undefined again): the identity the
\* subscription effect's dependency list compares.
returnsPrev(prev, incoming, strategy) ==
    IF ~incoming.defined THEN ~prev.defined
    ELSE LET candidate == IF strategy = "sticky"
                          THEN stickyCandidate(prev, incoming)
                          ELSE incoming
         IN prev.defined /\ sameMap(prev, candidate)

\* (mutant) applyTransition without its isMountedRef guard.
applyTransition_unguarded(R, nextStepName) ==
    IF nextStepName # Void /\ hasStep(steps, nextStepName)
    THEN [R EXCEPT !.pend.dirty = TRUE, !.pend.step = nextStepName]
    ELSE [R EXCEPT !.pend.dirty = TRUE]

\* (mutant) applyTransition keeping a step change that is already queued.
applyTransition_firstWins(R, nextStepName) ==
    IF ~R.isMountedRef THEN R
    ELSE IF nextStepName # Void /\ hasStep(steps, nextStepName) /\ R.pend.step = NoStep
         THEN [R EXCEPT !.pend.dirty = TRUE, !.pend.step = nextStepName]
         ELSE [R EXCEPT !.pend.dirty = TRUE]

\* applyTransition: queue a state update; it names a new current step only
\* when nextStepName is a key of flow.steps.
applyTransition(R, nextStepName) ==
    IF ~R.isMountedRef THEN R
    ELSE IF nextStepName # Void /\ hasStep(steps, nextStepName)
         THEN [R EXCEPT !.pend.dirty = TRUE, !.pend.step = nextStepName]
         ELSE [R EXCEPT !.pend.dirty = TRUE]

\* The component is in the rendered tree: it has a view and has neither been
\* unmounted nor removed after a throw. (isMountedRef is the ref the unmount
\* effect's cleanup clears.)
inTree(R) == R.view.kind \notin {"none", "crashed"}

\* setTick / setBusy: queued hook updates (React drops an update of an unmounted
\* component).
setTick(R) == IF inTree(R) THEN [R EXCEPT !.pend.tick = TRUE] ELSE R
setBusy(R, b) == [R EXCEPT !.pend.busy = IF b THEN "T" ELSE "F"]

\* The value `busy` has once the queued updates are applied.
busyNow(R) == IF R.pend.busy = "-" THEN R.busy ELSE R.pend.busy = "T"

\* ---------------------------------------------------------------- render
\* (mutant) an action step without render policy treated as preserve-previous.
viewOf_defaultPreserves(cs, prevUi, busy, input) ==
    IF isActionStep(cs)
    THEN IF steps[cs].render # "fallback" /\ prevUi # NoStep /\ steps[prevUi].view
         THEN [kind |-> "inert", step |-> prevUi, busy |-> FALSE, input |-> input]
         ELSE IF steps[cs].render = "fallback"
         THEN [kind |-> "fallback", step |-> cs, busy |-> busy, input |-> input]
         ELSE [kind |-> "null", step |-> cs, busy |-> FALSE, input |-> NoInput]
    ELSE [kind |-> "ui", step |-> cs, busy |-> FALSE, input |-> input]

\* The view handed to the rendering surface by one evaluation of the body.
viewOf(cs, prevUi, busy, input) ==
    IF isActionStep(cs)
    THEN IF steps[cs].render = "preserve-previous" /\ prevUi # NoStep /\ steps[prevUi].view
         THEN [kind |-> "inert", step |-> prevUi, busy |-> FALSE, input |-> input]
         ELSE IF steps[cs].render = "fallback"
         THEN [kind |-> "fallback", step |-> cs, busy |-> busy, input |-> input]
         ELSE [kind |-> "null", step |-> cs, busy |-> FALSE, input |-> NoInput]
    ELSE [kind |-> "ui", step |-> cs, busy |-> FALSE, input |-> input]

\* The fields of the domain and internal objects of data object vid.
read(R, vid) ==
    [domain |-> IF R.objs[vid].domain = Outer THEN R.outer.initialData
                ELSE R.objs[vid].domain,
     internal |-> IF R.objs[vid].internal = Outer THEN R.outer.created
                  ELSE R.objs[vid].internal]

\* input(domain, internal, events): the fields of domain and internal and the
\* channel values a step's input reads through events?.[k]?.get() in this
\* evaluation.
inputOf(data, events, cv) ==
    [seen |-> [k \in AllKeys |-> IF events.defined /\ events.m[k] \in Chans
                              THEN cv[events.m[k]] ELSE -1],
     data |-> data]

\* The body throws a TypeError when flow.steps[cs] is not a step descriptor
\* (undefined: reading `.action` of it; an inherited member: calling its
\* `.input`); React then removes the component, running its effect cleanups.
renderThrows(cs) == cs \notin StepNames
crashed(R, cs) ==
    [R EXCEPT !.currentStep = cs, !.isMountedRef = FALSE,
              !.view = [NoView EXCEPT !.kind = "crashed"],
              !.effectsDue = FALSE, !.pend = NoPend, !.depsChanged = FALSE,
              !.subDeps = Undefined, !.subClosure = NoClosure]

\* The resolved map binds a key to something that is no channel.
holdsMember(map) == \E k \in KeysOf(map) : map.m[k] = Member

\* One evaluation of the FlowRunner body with hook state (cs, vid, busy). An
\* input called for the view reads events?.[k]?.get() of every key and throws
\* a TypeError where the key is bound to something without `get`.
renderBody(R, cs, vid, busy, cv) ==
    IF renderThrows(cs) THEN crashed(R, cs) ELSE
    LET resolved == getResolvedChannels(R.resolvedChannelsRef,
                                        R.props.eventChannels, R.props.strategy)
        prevUi == IF ~isActionStep(cs) /\ steps[cs].view THEN cs
                  ELSE R.previousUiStepRef
    IN IF holdsMember(resolved) /\ viewOf(cs, prevUi, busy, NoInput).kind # "null"
       THEN crashed([R EXCEPT !.resolvedChannelsRef = resolved], cs) ELSE
       [R EXCEPT !.currentStep = cs,
                 !.data = vid,
                 !.busy = busy,
                 !.pend = NoPend,
                 !.resolvedChannelsRef = resolved,
                 !.depsChanged = ~returnsPrev(R.resolvedChannelsRef,
                                              R.props.eventChannels, R.props.strategy),
                 !.previousUiStepRef = prevUi,
                 !.view = viewOf(cs, prevUi, busy, inputOf(read(R, vid), resolved, cv)),
                 !.occ = IF cs = R.currentStep THEN R.occ ELSE "idle",
                 !.effectsDue = TRUE]

\* A re-render: the queued updates are applied in order, then the body runs.
\* Every queued state update copies domain and internal into new objects.
rerender(R, cv) ==
    LET cs == IF R.pend.dirty /\ R.pend.step # NoStep THEN R.pend.step ELSE R.currentStep
        vid == IF R.pend.dirty THEN FreshVid(R) ELSE R.data
        busy == busyNow(R)
        R1 == [R EXCEPT !.objs[vid] = read(R, R.data)]
    IN renderBody(R1, cs, vid, busy, cv)

\* resolveInternalData(): the object flow.createInternalData() returns (its
\* field holds 1), or a new empty object.
resolveInternalData == IF flow.createInternalData # NoFactory THEN 1 ELSE 0

\* (mutant) the initial state holding the caller's objects themselves.
initialState_shared(props) ==
    [domain |-> Outer,
     internal |-> IF flow.createInternalData # NoFactory THEN Outer ELSE 0]

\* The initial hook state's data: { ...initialData } and
\* { ...resolveInternalData() }, new objects with the fields of the originals.
initialState(props) ==
    [domain |-> props.initialData, internal |-> resolveInternalData]

\* The runner as useState/useRef initialise it, before the first evaluation.
\* `outer` holds the fields of the two objects the state was initialised from,
\* which stay with the caller and with the factory.
newRunner(start, props) ==
    [isMountedRef |-> TRUE,
     props |-> props,
     outer |-> [initialData |-> props.initialData, created |-> resolveInternalData],
     currentStep |-> start,
     data |-> 0,
     objs |-> [v \in Vids |-> IF v = 0 THEN initialState(props) ELSE ZeroData],
     busy |-> FALSE,
     pend |-> NoPend,
     resolvedChannelsRef |-> Undefined,
     previousUiStepRef |-> NoStep,
     view |-> NoView,
     effectsDue |-> FALSE,
     depsChanged |-> FALSE,
     subDeps |-> Undefined,
     subClosure |-> NoClosure,
     effStep |-> NoStep,
     occ |-> "idle",
     tasks |-> EmptyBag]

\* ---------------------------------------------------------------- tasks
Task(kind, phase, step, vid, key) ==
    [kind |-> kind, phase |-> phase, step |-> step, data |-> vid, key |-> key]

addTask(R, t) == [R EXCEPT !.tasks = @ (+) SetToBag({t})]
dropTask(R, t) == [R EXCEPT !.tasks = @ (-) SetToBag({t})]
nTasks(R) == BagCardinality(R.tasks)

\* A callback's assignment to the top-level field of the domain or internal
\* object it was given (the field takes the other of its two values).
Muts == {"none", "domain", "internal"}
mutate(R, vid, mut) ==
    IF mut = "domain"
    THEN IF R.objs[vid].domain = Outer THEN [R EXCEPT !.outer.initialData = 1 - @]
         ELSE [R EXCEPT !.objs[vid].domain = 1 - @]
    ELSE IF mut = "internal"
    THEN IF R.objs[vid].internal = Outer THEN [R EXCEPT !.outer.created = 1 - @]
         ELSE [R EXCEPT !.objs[vid].internal = 1 - @]
    ELSE R

\* ---------------------------------------------------------------- effects
\* useEffect(..., [flow.channelTransitions, resolvedEventChannels])
subEffectDue(R) == R.depsChanged

\* (mutant) the action effect without its [currentStep] dependency list.
actionEffectDue_everyRender(R) == TRUE

\* useEffect(..., [currentStep])
actionEffectDue(R) == R.effStep # R.currentStep

\* The subscription effect on the runner: the listeners it creates close over
\* this evaluation's currentStep, domain and internal.
subEffect(R) ==
    IF ~subEffectDue(R) THEN R
    ELSE [R EXCEPT !.depsChanged = FALSE,
                   !.subDeps = R.resolvedChannelsRef,
                   !.subClosure = IF KeysOf(R.resolvedChannelsRef) = {}
                                  THEN NoClosure
                                  ELSE [step |-> R.currentStep, data |-> R.data]]

\* (mutant) the subscription effect without the cleanup of its previous run.
subEffectOn_noCleanup(ls, r, R, c) ==
    IF ~subEffectDue(R) THEN ls
    ELSE subscribe(ls, listenersOf(r, R.resolvedChannelsRef, c))

\* The subscription effect on channel c: cleanup of the previous run, then subscribe.
subEffectOn(ls, r, R, c) ==
    IF ~subEffectDue(R) THEN ls
    ELSE subscribe(unsubscribe(ls, listenersOf(r, R.subDeps, c)),
                   listenersOf(r, R.resolvedChannelsRef, c))

\* (mutant) the async body without its finally block.
finallyBlock_missing(R) == R

\* finally { if (isMountedRef.current) setBusy(false) } of the action step's
\* async body (the catch before it only logs).
finallyBlock(R) == IF R.isMountedRef THEN setBusy(R, FALSE) ELSE R

\* The synchronous part of the action step's async body: setBusy(true), input,
\* the call of action.
startAction(R, inputThrows) ==
    LET R1 == [setBusy(R, TRUE) EXCEPT
                  !.occ = IF R.occ = "idle"
                          THEN (IF inputThrows THEN "threw" ELSE "ran")
                          ELSE "again"]
    IN IF inputThrows THEN finallyBlock(R1)
       ELSE addTask(R1, Task("action", "action", R1.currentStep, R1.data, "-"))

actionEffect(R, inputThrows) ==
    IF ~actionEffectDue(R) THEN R
    ELSE LET R1 == [R EXCEPT !.effStep = R.currentStep]
         IN IF isActionStep(R.currentStep) THEN startAction(R1, inputThrows) ELSE R1

\* ---------------------------------------------------------------- continuations
\* (mutant) the async body calling onOutput whether or not the action failed.
actionSettled_always(R, t, ok) ==
    addTask(dropTask(R, t), [t EXCEPT !.phase = "onOutput"])

\* `await actionStep.action(...)` settles: onOutput is called, or catch/finally.
actionSettled(R, t, ok) ==
    IF ok THEN addTask(dropTask(R, t), [t EXCEPT !.phase = "onOutput"])
    ELSE finallyBlock(dropTask(R, t))

\* (mutant) the action step's async body without its applyTransition(next).
outputSettled_dropped(R, t, res) ==
    IF t.kind = "action" THEN finallyBlock(dropTask(R, t))
    ELSE IF res = "throw" THEN dropTask(R, t) ELSE applyTransition(dropTask(R, t), res)

\* `await onOutput(...)` settles, for an action step and for a UI step.
outputSettled(R, t, res) ==
    LET R1 == dropTask(R, t)
        R2 == IF res = "throw" THEN R1 ELSE applyTransition(R1, res)
    IN IF t.kind = "action" THEN finallyBlock(R2) ELSE R2

\* (mutant) runChannelTransition forcing the re-render through a state update.
runChannelTransition_viaState(R, channelKey) ==
    IF channelKey \notin channelTransitions THEN applyTransition(R, Void)
    ELSE addTask(R, Task("resolver", "resolver", R.subClosure.step, R.subClosure.data, channelKey))

\* runChannelTransition, up to its await: without a resolver a re-render is
\* forced, with one the resolver is called with the closure's context.
runChannelTransition(R, channelKey) ==
    IF channelKey \notin channelTransitions THEN setTick(R)
    ELSE addTask(R, Task("resolver", "resolver", R.subClosure.step, R.subClosure.data, channelKey))

\* (mutant) runChannelTransition without its catch block: a rejection leaves
\* the runner as it was.
resolverSettled_uncaught(R, t, res) ==
    LET R1 == dropTask(R, t)
    IN IF res = "throw" THEN R1
       ELSE IF res # Void THEN applyTransition(R1, res)
       ELSE setTick(R1)

\* (mutant) runChannelTransition dropping the resolver's result.
resolverSettled_ignored(R, t, res) == setTick(dropTask(R, t))

\* runChannelTransition after `await transition(...)`.
resolverSettled(R, t, res) ==
    LET R1 == dropTask(R, t)
    IN IF res = "throw" THEN setTick(R1)
       ELSE IF res # Void THEN applyTransition(R1, res)
       ELSE setTick(R1)

\* listeners.forEach((l) => l()) as far as it concerns runner r: every listener
\* of r on the channel runs runChannelTransition for its key.
RECURSIVE notify(_, _)
notify(R, keys) ==
    IF keys = {} THEN R
    ELSE LET k == CHOOSE j \in keys : TRUE
         IN notify(runChannelTransition(R, k), keys \ {k})

\* (mutant) emit stopping after the listeners of the first runner.
notified_firstRunner(ls, r) ==
    IF \A x \in ls : r <= x.r THEN {l.key : l \in {x \in ls : x.r = r}} ELSE {}

\* The keys whose listeners of runner r are in the listener set ls.
notified(ls, r) == {l.key : l \in {x \in ls : x.r = r}}

\* ---------------------------------------------------------------- actions
\* The props of a runner: eventChannels, eventChannelsStrategy and the field of
\* the initialData object.
PropsOf(map, strategy, initialData) ==
    [eventChannels |-> map, strategy |-> strategy, initialData |-> initialData]
Props(map, strategy) == PropsOf(map, strategy, 0)

Runners == DOMAIN runner
values == [c \in Chans |-> get(c)]

\* The channels after an evaluation of runner r that ended in state R2: as they
\* were, or without r's listeners when the evaluation threw.
channelsAfter(r, R2) ==
    IF inTree(R2) THEN channel
    ELSE [c \in Chans |->
            [channel[c] EXCEPT !.listeners = unsubscribe(@, listenersOf(r, runner[r].subDeps, c))]]

\* React re-evaluates the component: queued updates applied, body run. Passive
\* effects of the previous commit are flushed before a new evaluation.
Render(r) ==
    LET R == runner[r] IN
    /\ inTree(R) /\ ~R.effectsDue
    /\ R.pend # NoPend
    /\ runner' = [runner EXCEPT ![r] = Gc(rerender(R, values))]
    /\ channel' = channelsAfter(r, rerender(R, values))
    /\ UNCHANGED flow

\* An evaluation of the body calls a step's input for the view it returns: the
\* UI step's (594), the preserved UI step's (555) or the action step's for its
\* fallback view (571).
inputEvaluated(R) == R.view.kind \in {"ui", "inert", "fallback"}

\* React re-evaluates the component and the input called for the view throws:
\* the call is not inside a try block, the body throws, and React removes the
\* component, running its effect cleanups.
RenderInputThrows(r) ==
    LET R == runner[r]
        R2 == rerender(R, values)
        R3 == crashed(R2, R2.currentStep)
    IN /\ inTree(R) /\ ~R.effectsDue
       /\ R.pend # NoPend
       /\ inTree(R2) /\ inputEvaluated(R2)
       /\ runner' = [runner EXCEPT ![r] = Gc(R3)]
       /\ channel' = channelsAfter(r, R3)
       /\ UNCHANGED flow

\* React runs the passive effects of the last commit, in declaration order:
\* the subscription effect, then the action effect.
\* The action step's input throws (inputThrows) or returns.
RunEffectsAs(r, cap, inputThrows) ==
    LET R == runner[r] IN
    /\ inTree(R) /\ R.effectsDue
    /\ ~(subEffectDue(R) /\ holdsMember(R.resolvedChannelsRef))
    /\ actionEffectDue(R) /\ isActionStep(R.currentStep) => nTasks(R) < cap
    /\ inputThrows => actionEffectDue(R) /\ isActionStep(R.currentStep)
    /\ runner' = [runner EXCEPT ![r] =
           Gc([actionEffect(subEffect(R), inputThrows) EXCEPT !.effectsDue = FALSE])]
    /\ channel' = [c \in Chans |->
           [channel[c] EXCEPT !.listeners = subEffectOn(@, r, R, c)]]
    /\ UNCHANGED flow

RunEffects(r, cap) == \E inputThrows \in BOOLEAN : RunEffectsAs(r, cap, inputThrows)

\* React runs the passive effects and the subscription effect throws: after the
\* cleanup of its previous run it subscribes key by key, in the order of the
\* map's entries, and `ch.subscribe` of a key bound to something that is no
\* channel is a TypeError. React removes the component; the listeners added
\* before the throw (leaked) have no cleanup.
EffectThrows(r) ==
    LET R == runner[r]
        resolved == R.resolvedChannelsRef
    IN /\ inTree(R) /\ R.effectsDue
       /\ subEffectDue(R) /\ holdsMember(resolved)
       /\ \E leaked \in SUBSET {k \in KeysOf(resolved) : resolved.m[k] \in Chans} :
             channel' = [c \in Chans |->
                 [channel[c] EXCEPT !.listeners =
                     subscribe(unsubscribe(@, listenersOf(r, R.subDeps, c)),
                               {[r |-> r, key |-> k] : k \in {j \in leaked : resolved.m[j] = c}})]]
       /\ runner' = [runner EXCEPT ![r] = Gc(crashed(R, R.currentStep))]
       /\ UNCHANGED flow

\* The rendering surface calls output.emit of the UI step on screen.
EmitOutput(r, cap) ==
    LET R == runner[r] IN
    /\ inTree(R) /\ R.view.kind = "ui"
    /\ nTasks(R) < cap
    /\ runner' = [runner EXCEPT ![r] =
           addTask(R, Task("ui", "onOutput", R.view.step, R.data, "-"))]
    /\ UNCHANGED <<flow, channel>>

\* (mutant) the handle of the preserved view routing to the step's onOutput.
inertEmit_live(R) == addTask(R, Task("ui", "onOutput", R.view.step, R.data, "-"))

\* emit of the handle given to the preserved view: `emit: () => {}`.
inertEmit(R) == R

\* The rendering surface calls output.emit of the preserved view on screen.
EmitInert(r) ==
    LET R == runner[r] IN
    /\ inTree(R) /\ R.view.kind = "inert"
    /\ runner' = [runner EXCEPT ![r] = inertEmit(R)]
    /\ UNCHANGED <<flow, channel>>

\* The action of task t settles (ok: it returned, else it threw or rejected),
\* having made the assignment mut to its data.
ActionSettleAs(r, t, ok, mut) ==
    LET R == runner[r] IN
    /\ t \in BagToSet(R.tasks) /\ t.phase = "action"
    /\ runner' = [runner EXCEPT ![r] = Gc(actionSettled(mutate(R, t.data, mut), t, ok))]
    /\ UNCHANGED <<flow, channel>>

ActionSettle(r, muts) ==
    \E t \in BagToSet(runner[r].tasks), ok \in BOOLEAN, mut \in muts :
        ActionSettleAs(r, t, ok, mut)

Results == NextVals \cup {"throw"}

\* The onOutput of task t settles with res: a next value, or "throw".
OutputSettleAs(r, t, res, mut) ==
    LET R == runner[r] IN
    /\ t \in BagToSet(R.tasks) /\ t.phase = "onOutput"
    /\ runner' = [runner EXCEPT ![r] = Gc(outputSettled(mutate(R, t.data, mut), t, res))]
    /\ UNCHANGED <<flow, channel>>

OutputSettle(r, muts) ==
    \E t \in BagToSet(runner[r].tasks), res \in Results, mut \in muts :
        OutputSettleAs(r, t, res, mut)

\* The channel resolver of task t settles with res.
ResolverSettleAs(r, t, res) ==
    LET R == runner[r] IN
    /\ t \in BagToSet(R.tasks) /\ t.phase = "resolver"
    /\ runner' = [runner EXCEPT ![r] = Gc(resolverSettled(R, t, res))]
    /\ UNCHANGED <<flow, channel>>

ResolverSettle(r) ==
    \E t \in BagToSet(runner[r].tasks), res \in Results : ResolverSettleAs(r, t, res)

\* createFlowChannel: emit(v): commit the value, notify every listener.
ChannelEmitAs(c, cap, v) ==
    /\ \A r \in Runners :
          nTasks(runner[r]) + Cardinality(notified(channel[c].listeners, r) \cap channelTransitions)
             <= cap
    /\ channel' = [channel EXCEPT ![c].value = v]
    /\ runner' = [r \in Runners |-> notify(runner[r], notified(channel[c].listeners, r))]
    /\ UNCHANGED flow

ChannelEmit(c, cap) == \E v \in ChanVals : ChannelEmitAs(c, cap, v)

\* The parent renders the runner with new eventChannels / eventChannelsStrategy
\* props: the body is evaluated with them.
SetPropsAs(r, map, strategy) ==
    LET R == runner[r] IN
    /\ inTree(R) /\ ~R.effectsDue
    /\ PropsOf(map, strategy, R.props.initialData) # R.props
    /\ runner' = [runner EXCEPT ![r] =
           Gc(rerender([R EXCEPT !.props = PropsOf(map, strategy, R.props.initialData)],
                       values))]
    /\ channel' = channelsAfter(r,
           rerender([R EXCEPT !.props = PropsOf(map, strategy, R.props.initialData)], values))
    /\ UNCHANGED flow

SetProps(r, maps, strategies) ==
    \E map \in maps, strategy \in strategies : SetPropsAs(r, map, strategy)

\* The parent re-renders the runner with props equal to the last ones (the map
\* possibly a new object with the same keys and instances).
ParentRender(r) ==
    LET R == runner[r] IN
    /\ inTree(R) /\ ~R.effectsDue
    /\ runner' = [runner EXCEPT ![r] = Gc(rerender(R, values))]
    /\ channel' = channelsAfter(r, rerender(R, values))
    /\ UNCHANGED flow

\* (mutant) teardown with a subscription effect that returns no cleanup.
Unmount_leak(r) ==
    LET R == runner[r] IN
    /\ inTree(R)
    /\ runner' = [runner EXCEPT ![r] =
           Gc([R EXCEPT !.isMountedRef = FALSE, !.view = NoView, !.effectsDue = FALSE,
                        !.pend = NoPend,
                        !.depsChanged = FALSE,
                        !.subDeps = Undefined, !.subClosure = NoClosure])]
    /\ UNCHANGED <<flow, channel>>

\* The component is torn down: effect cleanups run.
Unmount(r) ==
    LET R == runner[r] IN
    /\ inTree(R)
    /\ runner' = [runner EXCEPT ![r] =
           Gc([R EXCEPT !.isMountedRef = FALSE, !.view = NoView, !.effectsDue = FALSE,
                        !.pend = NoPend,
                        !.depsChanged = FALSE,
                        !.subDeps = Undefined, !.subClosure = NoClosure])]
    /\ channel' = [c \in Chans |->
           [channel[c] EXCEPT !.listeners = unsubscribe(@, listenersOf(r, R.subDeps, c))]]
    /\ UNCHANGED flow

\* ---------------------------------------------------------------- specifications
NewChannels(cs) == [c \in cs |-> [value |-> 0, listeners |-> {}]]

\* The first evaluation of a FlowRunner given props, on flow.start.
mount(props) == renderBody(newRunner(flow.start, props), flow.start, 0, FALSE, values)

Bind(k, c) == MapOf([j \in AllKeys |-> IF j = k THEN c ELSE NoChan])

\* A flow of two UI steps and an action step, with a resolver for "refresh".
BaseSteps == [ask |-> UiStep, work |-> ActionStep("none"), show |-> UiStep]
BaseFlows == {defineFlow(BaseSteps, s, {"refresh"}) : s \in {x \in {"ask", "work"} : defineFlowOk(BaseSteps, x)}}

\* One runner, mounted on one channel under a key with or without a resolver.
Init ==
    /\ flow \in BaseFlows
    /\ channel = NewChannels({"A"})
    /\ \E k \in Keys : runner = [r \in {1} |-> mount(Props(Bind(k, "A"), "sticky"))]

Next ==
    \/ \E r \in Runners : Render(r)
    \/ \E r \in Runners : RunEffects(r, MaxTasks)
    \/ \E r \in Runners : EmitOutput(r, MaxTasks)
    \/ \E r \in Runners : ActionSettle(r, {"none"})
    \/ \E r \in Runners : OutputSettle(r, {"none"})
    \/ \E r \in Runners : ResolverSettle(r)
    \/ \E c \in Chans : ChannelEmit(c, MaxTasks)
    \/ \E r \in Runners : Unmount(r)

Spec == Init /\ [][Next]_vars

\* The same runner with one more callback allowed in flight.
NextRace ==
    \/ \E r \in Runners : Render(r)
    \/ \E r \in Runners : RunEffects(r, MaxTasks + 1)
    \/ \E r \in Runners : EmitOutput(r, MaxTasks + 1)
    \/ \E r \in Runners : ActionSettle(r, {"none"})
    \/ \E r \in Runners : OutputSettle(r, {"none"})
    \/ \E r \in Runners : ResolverSettle(r)
    \/ \E c \in Chans : ChannelEmit(c, MaxTasks + 1)
    \/ \E r \in Runners : Unmount(r)

SpecRace == Init /\ [][NextRace]_vars

\* One runner on a channel bound under a key without resolver; callbacks assign
\* to the fields of domain and internal.
InitData ==
    /\ flow \in BaseFlows
    /\ channel = NewChannels({"A"})
    /\ runner = [r \in {1} |-> mount(Props(Bind("counter", "A"), "sticky"))]

NextData ==
    \/ \E r \in Runners : Render(r)
    \/ \E r \in Runners : RunEffects(r, MaxTasks)
    \/ \E r \in Runners : EmitOutput(r, MaxTasks)
    \/ \E r \in Runners : ActionSettle(r, Muts)
    \/ \E r \in Runners : OutputSettle(r, Muts)
    \/ \E c \in Chans : ChannelEmit(c, MaxTasks)
    \/ \E r \in Runners : Unmount(r)

SpecData == InitData /\ [][NextData]_vars

\* A flow of two UI steps.
UiSteps == [ask |-> UiStep, show |-> UiStep]

\* Two runners of one flow, each bound to the same channel under a key of its
\* own (the runners are interchangeable: one order of each pair of keys).
InitTwo ==
    /\ flow = defineFlow(UiSteps, "ask", {"refresh"})
    /\ channel = NewChannels({"A"})
    /\ \E k1 \in Keys, k2 \in Keys :
          /\ k1 = "refresh" \/ k2 = "counter"
          /\ runner = [r \in {1, 2} |-> mount(Props(Bind(IF r = 1 THEN k1 ELSE k2, "A"), "sticky"))]

NextTwo ==
    \/ \E r \in Runners : Render(r)
    \/ \E r \in Runners : RunEffects(r, MaxTasks)
    \/ \E r \in Runners : ResolverSettle(r)
    \/ \E c \in Chans : ChannelEmit(c, MaxTasks)

SpecTwo == InitTwo /\ [][NextTwo]_vars

\* One runner whose parent supplies new channel maps under the sticky strategy:
\* undefined, or any map of the keys over two channel instances.
ChannelMaps == {Undefined} \cup {MapOf(f) : f \in [Keys -> {NoChan, "A", "B"}]}

InitProps ==
    /\ flow = defineFlow(UiSteps, "ask", {"counter"})
    /\ channel = NewChannels({"A", "B"})
    /\ \E map \in ChannelMaps : runner = [r \in {1} |-> mount(Props(map, "sticky"))]

NextProps ==
    \/ \E r \in Runners : SetProps(r, ChannelMaps, {"sticky"})
    \/ \E r \in Runners : Render(r)
    \/ \E r \in Runners : RunEffects(r, MaxTasks)
    \/ \E r \in Runners : ResolverSettle(r)
    \/ \E c \in Chans : ChannelEmit(c, MaxTasks)
    \/ \E r \in Runners : Unmount(r)

SpecProps == InitProps /\ [][NextProps]_vars

\* One runner of a flow without resolvers whose parent supplies new channel maps
\* and strategies.
Strategies == {"sticky", "replace"}

InitSubs ==
    /\ flow = defineFlow(UiSteps, "ask", {})
    /\ channel = NewChannels({"A", "B"})
    /\ \E map \in ChannelMaps, strategy \in Strategies :
          runner = [r \in {1} |-> mount(Props(map, strategy))]

NextSubs ==
    \/ \E r \in Runners : SetProps(r, ChannelMaps, Strategies)
    \/ \E r \in Runners : ParentRender(r)
    \/ \E r \in Runners : Render(r)
    \/ \E r \in Runners : RunEffects(r, MaxTasks)
    \/ \E c \in Chans : ChannelEmit(c, MaxTasks)
    \/ \E r \in Runners : Unmount(r)

SpecSubs == InitSubs /\ [][NextSubs]_vars

\* ---------------------------------------------------------------- defineFlow and mount
\* A caller defines a flow from steps and options, then mounts a runner of it;
\* callbacks may return any name, also one the steps object only inherits.
NoFlow == [defined |-> FALSE]
Threw == [error |-> "defineFlow: 'start' must be provided and exist in steps."]
StepMaps == {UiSteps, BaseSteps}
Starts == {"", "ask", "work", "missingStep"} \cup Inherited
Factories == {NoFactory, "factory"}
Options == [start : Starts, channelTransitions : {{}, {"refresh"}},
            createInternalData : Factories]

\* defineFlow(steps, options): throws, or returns the definition.
DefineAs(stepMap, options) ==
    /\ flow = NoFlow
    /\ flow' = IF defineFlowOk(stepMap, options.start)
               THEN defineFlowWith(stepMap, options)
               ELSE Threw
    /\ UNCHANGED <<channel, runner>>

Define == \E stepMap \in StepMaps, options \in Options : DefineAs(stepMap, options)

\* <FlowRunner flow={flow} ... /> is rendered for a definition: the hooks are
\* initialised and the body is evaluated for the first time.
MountAs(props) ==
    /\ flow \notin {NoFlow, Threw} /\ runner = <<>>
    /\ runner' = [r \in {1} |-> mount(props)]
    /\ UNCHANGED <<flow, channel>>

MountFlow == \E k \in Keys : MountAs(Props(Bind(k, "A"), "sticky"))

\* The onOutput of task t settles with a next value, "throw", or a name the
\* steps object inherits.
OutputSettleNamed(r) ==
    \E t \in BagToSet(runner[r].tasks), res \in Results \cup Inherited :
        OutputSettleAs(r, t, res, "none")

InitDefine ==
    /\ flow = NoFlow
    /\ channel = NewChannels({"A"})
    /\ runner = <<>>

NextDefine ==
    \/ Define
    \/ MountFlow
    \/ \E r \in Runners : Render(r)
    \/ \E r \in Runners : RunEffects(r, MaxTasks)
    \/ \E r \in Runners : EmitOutput(r, MaxTasks)
    \/ \E r \in Runners : ActionSettle(r, {"none"})
    \/ \E r \in Runners : OutputSettleNamed(r)
    \/ \E c \in Chans : ChannelEmit(c, MaxTasks)
    \/ \E r \in Runners : ResolverSettle(r)

SpecDefine == InitDefine /\ [][NextDefine]_vars

\* ---------------------------------------------------------------- creation
\* The code outside the runner assigns to the top-level field of an object the
\* state was initialised from: the caller to its initialData object, or the
\* factory's owner to the object createInternalData returned.
OuterParts == {"initialData", "created"}
CallerAssignAs(r, part) ==
    /\ part = "created" => flow.createInternalData # NoFactory
    /\ runner' = [runner EXCEPT ![r].outer[part] = 1 - @]
    /\ UNCHANGED <<flow, channel>>

CallerAssign(r) == \E part \in OuterParts : CallerAssignAs(r, part)

\* The parent renders the runner again with an initialData object whose field
\* holds v: the body is evaluated, useState keeps its state.
SetInitialDataAs(r, v) ==
    LET R == runner[r]
        R1 == [R EXCEPT !.props.initialData = v]
    IN /\ inTree(R) /\ ~R.effectsDue
       /\ runner' = [runner EXCEPT ![r] = Gc(rerender(R1, values))]
       /\ channel' = channelsAfter(r, rerender(R1, values))
       /\ UNCHANGED flow

SetInitialData(r) == \E v \in DataVals : SetInitialDataAs(r, v)

Mount == \E v \in DataVals : MountAs(PropsOf(Undefined, "sticky", v))

\* A flow of a UI step and an action step, not yet rendered: one that starts on
\* the UI step and has no createInternalData, or one that starts on the action
\* step and has it.
CreateSteps == [ask |-> UiStep, work |-> ActionStep("none")]
InitCreate ==
    /\ flow \in {defineFlowWith(CreateSteps, [start |-> o[1], channelTransitions |-> {},
                                            createInternalData |-> o[2]]) :
                    o \in {<<"ask", NoFactory>>, <<"work", "factory">>}}
    /\ channel = NewChannels({"A"})
    /\ runner = <<>>

NextCreate ==
    \/ Mount
    \/ \E r \in Runners : CallerAssign(r)
    \/ \E r \in Runners : SetInitialData(r)
    \/ \E r \in Runners : Render(r)
    \/ \E r \in Runners : RunEffects(r, MaxTasks)
    \/ \E r \in Runners : EmitOutput(r, MaxTasks)
    \/ \E r \in Runners : ActionSettle(r, Muts)
    \/ \E r \in Runners : OutputSettle(r, Muts)

SpecCreate == InitCreate /\ [][NextCreate]_vars

\* ---------------------------------------------------------------- render policies
\* A flow of two UI steps and an action step with a render policy.
PolicySteps(mode) == [ask |-> UiStep, work |-> ActionStep(mode), show |-> UiStep]

\* One runner of a flow whose action step preserves the previous view, on a
\* channel bound under a key without resolver; callbacks assign to domain.
InitPreserve ==
    /\ flow \in {defineFlow(PolicySteps("preserve-previous"), s, {}) : s \in {"ask", "work"}}
    /\ channel = NewChannels({"A"})
    /\ runner = [r \in {1} |-> mount(Props(Bind("counter", "A"), "sticky"))]

NextPreserve ==
    \/ \E r \in Runners : Render(r)
    \/ \E r \in Runners : RunEffects(r, MaxTasks)
    \/ \E r \in Runners : EmitOutput(r, MaxTasks)
    \/ \E r \in Runners : EmitInert(r)
    \/ \E r \in Runners : ActionSettle(r, {"none", "domain"})
    \/ \E r \in Runners : OutputSettle(r, {"none", "domain"})
    \/ \E c \in Chans : ChannelEmit(c, MaxTasks)

SpecPreserve == InitPreserve /\ [][NextPreserve]_vars

\* One runner of a flow whose action step renders a fallback view.
InitFallback ==
    /\ flow \in {defineFlow(PolicySteps("fallback"), s, {"refresh"}) : s \in {"ask", "work"}}
    /\ channel = NewChannels({"A"})
    /\ \E k \in Keys : runner = [r \in {1} |-> mount(Props(Bind(k, "A"), "sticky"))]

SpecFallback == InitFallback /\ [][Next]_vars

\* ---------------------------------------------------------------- the study flow
\* fetch and decide are action steps, show and empty UI steps; the field of
\* domain tells whether items is non-empty.
StudySteps == [fetch |-> ActionStep("none"), decide |-> ActionStep("none"),
               show |-> UiStep, empty |-> UiStep]

\* The flow's callbacks: decide's action returns its input, hasItems; the
\* onOutput of fetch returns "decide", that of decide "show" or "empty".
studyInput(R, t) == read(R, t.data).domain = 1
studyOnOutput(step, hasItems) ==
    IF step = "fetch" THEN "decide"
    ELSE IF step = "decide" THEN (IF hasItems THEN "show" ELSE "empty")
    ELSE Void

\* The action of the task in flight resolves; its onOutput returns. No callback
\* of the flow assigns to the data, so the input read when the task settles is
\* the input the action was started with.
StudyActionSettle(r) ==
    \E t \in BagToSet(runner[r].tasks) : ActionSettleAs(r, t, TRUE, "none")

StudyOutputSettle(r) ==
    \E t \in BagToSet(runner[r].tasks) :
        OutputSettleAs(r, t, studyOnOutput(t.step, studyInput(runner[r], t)), "none")

StudyRunners == {1, 2}

\* Two runners of the flow, started on fetch, each with empty or non-empty items.
InitStudy ==
    /\ flow = defineFlow(StudySteps, "fetch", {})
    /\ channel = NewChannels({"A"})
    /\ \E items \in [StudyRunners -> DataVals] :
          runner = [r \in StudyRunners |-> mount(PropsOf(Undefined, "sticky", items[r]))]

StudyStep(r) ==
    \/ Render(r)
    \/ RunEffectsAs(r, MaxTasks, FALSE)
    \/ StudyActionSettle(r)
    \/ StudyOutputSettle(r)

NextStudy == \E r \in Runners : StudyStep(r)

\* React flushes pending renders and effects, and the flow's promises settle.
SpecStudy == InitStudy /\ [][NextStudy]_vars /\ \A r \in StudyRunners : WF_vars(StudyStep(r))

\* ---------------------------------------------------------------- late actions
\* One runner started on the action step of a flow with a resolver, on a
\* channel bound under the resolver's key: the resolver can move the flow on
\* while the action is in flight; the action and its onOutput assign to domain.
InitLate ==
    /\ flow = defineFlow(CreateSteps, "work", {"refresh"})
    /\ channel = NewChannels({"A"})
    /\ runner = [r \in {1} |-> mount(Props(Bind("refresh", "A"), "sticky"))]

NextLate ==
    \/ \E r \in Runners : Render(r)
    \/ \E r \in Runners : RunEffects(r, MaxTasks + 1)
    \/ \E r \in Runners : ActionSettle(r, {"none", "domain"})
    \/ \E r \in Runners : OutputSettle(r, {"none", "domain"})
    \/ \E r \in Runners : ResolverSettle(r)
    \/ \E c \in Chans : ChannelEmit(c, MaxTasks + 1)

SpecLate == InitLate /\ [][NextLate]_vars

\* A runner started on an action step whose callbacks and resolver may settle
\* after the runner was torn down.
NextDown ==
    \/ NextLate
    \/ \E r \in Runners : Unmount(r)

SpecDown == InitLate /\ [][NextDown]_vars

\* ---------------------------------------------------------------- effects re-run
\* React tears the effects of a mounted runner down and sets them up again,
\* keeping its state and refs (as StrictMode does after mounting): the cleanups
\* run (the listeners are removed, isMountedRef.current = false), then every
\* effect runs again with the closures of the last evaluation: the listeners
\* are added again, the unmount effect only returns its cleanup, and the
\* action effect starts the current action step once more.
EffectsRerunAs(r, cap, inputThrows) ==
    LET R == runner[r]
        R1 == [R EXCEPT !.isMountedRef = FALSE,
                        !.subDeps = R.resolvedChannelsRef,
                        !.subClosure = IF KeysOf(R.resolvedChannelsRef) = {}
                                       THEN NoClosure
                                       ELSE [step |-> R.currentStep, data |-> R.data]]
        R2 == IF isActionStep(R.currentStep) THEN startAction(R1, inputThrows) ELSE R1
    IN /\ inTree(R) /\ ~R.effectsDue /\ R.isMountedRef
       /\ isActionStep(R.currentStep) => nTasks(R) < cap
       /\ inputThrows => isActionStep(R.currentStep)
       /\ runner' = [runner EXCEPT ![r] = Gc(R2)]
       /\ channel' = [c \in Chans |->
              [channel[c] EXCEPT !.listeners =
                  subscribe(unsubscribe(@, listenersOf(r, R.subDeps, c)),
                            listenersOf(r, R.resolvedChannelsRef, c))]]
       /\ UNCHANGED flow

EffectsRerun(r, cap) == \E inputThrows \in BOOLEAN : EffectsRerunAs(r, cap, inputThrows)

NextStrict ==
    \/ \E r \in Runners : Render(r)
    \/ \E r \in Runners : RunEffects(r, MaxTasks + 1)
    \/ \E r \in Runners : EffectsRerun(r, MaxTasks + 1)
    \/ \E r \in Runners : EmitOutput(r, MaxTasks + 1)
    \/ \E r \in Runners : ActionSettle(r, {"none"})
    \/ \E r \in Runners : OutputSettle(r, {"none"})
    \/ \E r \in Runners : ResolverSettle(r)
    \/ \E c \in Chans : ChannelEmit(c, MaxTasks + 1)

SpecStrict == Init /\ [][NextStrict]_vars

\* ---------------------------------------------------------------- racing emits
\* One runner of a flow of two UI steps, without channels: emit can be called
\* again while an earlier onOutput is in flight.
InitEmit ==
    /\ flow = defineFlow(UiSteps, "ask", {})
    /\ channel = NewChannels({"A"})
    /\ runner = [r \in {1} |-> mount(Props(Undefined, "sticky"))]

NextEmit ==
    \/ \E r \in Runners : Render(r)
    \/ \E r \in Runners : RunEffects(r, MaxTasks + 1)
    \/ \E r \in Runners : EmitOutput(r, MaxTasks + 1)
    \/ \E r \in Runners : OutputSettle(r, {"none"})
    \/ \E r \in Runners : Unmount(r)

SpecEmit == InitEmit /\ [][NextEmit]_vars

\* ---------------------------------------------------------------- inherited keys
\* One runner whose parent supplies channel maps over a plain key and a key
\* every object inherits, under either strategy.
KeyMaps == {Undefined} \cup {MapOf(f) : f \in [{"counter", "toString"} -> {NoChan, "A", "B"}]}

InitKeys ==
    /\ flow \in {defineFlow(CreateSteps, s, {}) : s \in {"ask", "work"}}
    /\ channel = NewChannels({"A", "B"})
    /\ \E map \in KeyMaps, strategy \in Strategies :
          runner = [r \in {1} |-> mount(Props(map, strategy))]

NextKeys ==
    \/ \E r \in Runners : SetProps(r, KeyMaps, Strategies)
    \/ \E r \in Runners : Render(r)
    \/ \E r \in Runners : RunEffects(r, MaxTasks)
    \/ \E r \in Runners : EffectThrows(r)
    \/ \E r \in Runners : ActionSettle(r, {"none"})
    \/ \E r \in Runners : OutputSettle(r, {"none"})
    \/ \E c \in Chans : ChannelEmit(c, MaxTasks)

SpecKeys == InitKeys /\ [][NextKeys]_vars

\* ---------------------------------------------------------------- mixed descriptors
\* A descriptor carrying both `view` and `action`, and a flow with a UI step,
\* an action step and such a step.
BothStep == [view |-> TRUE, action |-> TRUE, render |-> "none"]
MixedSteps == [ask |-> UiStep, work |-> ActionStep("none"), show |-> BothStep]

InitBoth ==
    /\ flow \in {defineFlow(MixedSteps, s, {"refresh"}) : s \in {"ask", "work"}}
    /\ channel = NewChannels({"A"})
    /\ \E k \in Keys : runner = [r \in {1} |-> mount(Props(Bind(k, "A"), "sticky"))]

SpecBoth == InitBoth /\ [][Next]_vars

\* ---------------------------------------------------------------- a replaced flow
\* The parent re-renders <FlowRunner flow={f} ... /> with a definition whose
\* steps lack the step the runner is on: flow.steps[currentStep] is undefined,
\* reading `.action` of it throws, and React removes the component.
SetFlowLacking(r) ==
    LET R == runner[r]
        cs == IF R.pend.dirty /\ R.pend.step # NoStep THEN R.pend.step ELSE R.currentStep
        f == defineFlow(UiSteps, "ask", {"refresh"})
        R3 == crashed(R, cs)
    IN /\ inTree(R) /\ ~R.effectsDue
       /\ cs \notin DOMAIN f.steps /\ cs \notin Inherited
       /\ flow' = f
       /\ runner' = [runner EXCEPT ![r] = Gc(R3)]
       /\ channel' = channelsAfter(r, R3)

NextReflow ==
    \/ \E r \in Runners : Render(r)
    \/ \E r \in Runners : SetFlowLacking(r)
    \/ \E r \in Runners : RunEffects(r, MaxTasks)
    \/ \E r \in Runners : EmitOutput(r, MaxTasks)
    \/ \E r \in Runners : ActionSettle(r, {"none"})
    \/ \E r \in Runners : OutputSettle(r, {"none"})
    \/ \E r \in Runners : ResolverSettle(r)
    \/ \E c \in Chans : ChannelEmit(c, MaxTasks)

SpecReflow == Init /\ [][NextReflow]_vars

\* ---------------------------------------------------------------- throwing inputs
\* One runner of a flow whose action step has any of the render policies; the
\* input called during an evaluation may throw.
InitThrow ==
    /\ flow \in {defineFlow(PolicySteps(mode), "ask", {"refresh"}) :
                    mode \in {"none", "preserve-previous", "fallback"}}
    /\ channel = NewChannels({"A"})
    /\ runner = [r \in {1} |-> mount(Props(Bind("refresh", "A"), "sticky"))]

NextThrow ==
    \/ \E r \in Runners : Render(r)
    \/ \E r \in Runners : RenderInputThrows(r)
    \/ \E r \in Runners : RunEffects(r, MaxTasks)
    \/ \E r \in Runners : EmitOutput(r, MaxTasks)
    \/ \E r \in Runners : ActionSettle(r, {"none"})
    \/ \E r \in Runners : OutputSettle(r, {"none"})
    \/ \E r \in Runners : ResolverSettle(r)
    \/ \E c \in Chans : ChannelEmit(c, MaxTasks)

SpecThrow == InitThrow /\ [][NextThrow]_vars

\* ---------------------------------------------------------------- channel in detail
\* createFlowChannel with arbitrary listeners: `listeners` is the entry list of
\* the Set (insertion order; an entry deleted while forEach is iterating is
\* emptied and dropped when the iteration ends), `pass` the state of the
\* running emit, `removers` the removal functions subscribe has returned (with
\* the number of times each was called, counted up to 2), `result` how the last
\* emit ended.
Listeners == {"f", "g"}
Empty == "-"
NoPass == [active |-> FALSE, pos |-> 1, began |-> {}, called |-> {}, seen |-> {}, thrown |-> FALSE]

\* An Updater<T>: a value, or a function of the previous value.
Updaters == [fn : {FALSE}, v : ChanVals] \cup [fn : {TRUE}, f : [ChanVals -> ChanVals]]

\* typeof update === "function" ? update(value) : update
applyUpdate(u, prev) == IF u.fn THEN u.f[prev] ELSE u.v

\* createFlowChannel(initial)
createFlowChannel(initial) ==
    [value |-> initial, initial |-> initial, listeners |-> <<>>, pass |-> NoPass,
     removers |-> <<>>, result |-> "none"]

entries(ls) == {ls[i] : i \in 1..Len(ls)} \ {Empty}

\* Set.prototype.add / delete on the entry list.
setAdd(ls, l) == IF l \in entries(ls) THEN ls ELSE Append(ls, l)
setDelete(ls, l, iterating) ==
    IF iterating THEN [i \in 1..Len(ls) |-> IF ls[i] = l THEN Empty ELSE ls[i]]
    ELSE SelectSeq(ls, LAMBDA x : x # l)
compact(ls) == SelectSeq(ls, LAMBDA x : x # Empty)

\* subscribe(listener): listeners.add(listener), and the removal function.
chSubscribe(ch, l) ==
    [ch EXCEPT !.listeners = setAdd(@, l),
               !.removers = Append(@, [l |-> l, calls |-> 0])]

\* The removal function i: listeners.delete(listener).
chRemove(ch, i) ==
    [ch EXCEPT !.listeners = setDelete(@, ch.removers[i].l, ch.pass.active),
               !.removers[i].calls = IF @ < 2 THEN @ + 1 ELSE 2]

\* The entries forEach has still to visit.
pendingEntries(ch) == {i \in ch.pass.pos..Len(ch.listeners) : ch.listeners[i] # Empty}

\* forEach returns when no entry is left to visit, and emit with it.
advance(ch) ==
    IF pendingEntries(ch) # {} THEN ch
    ELSE [ch EXCEPT !.pass.active = FALSE, !.listeners = compact(@), !.result = "returned"]

\* (mutant) emit notifying before it assigns the value.
commit_skipped(ch, u) == ch

\* value = typeof update === "function" ? update(value) : update
commit(ch, u) == [ch EXCEPT !.value = applyUpdate(u, ch.value)]

\* emit(update) up to the call of the first listener.
emitBegin(ch, u) ==
    advance([commit(ch, u) EXCEPT
                !.pass = [NoPass EXCEPT !.active = TRUE, !.began = entries(ch.listeners)],
                !.result = "running"])

\* What a listener does when called: return, throw, subscribe a listener, call
\* a removal function.
Behaviours(ch) ==
    {[do |-> "return"], [do |-> "throw"]}
       \cup (IF Len(ch.removers) < MaxRegs THEN {[do |-> "subscribe", l |-> l] : l \in Listeners}
              ELSE {})
       \cup {[do |-> "remove", i |-> i] : i \in 1..Len(ch.removers)}

\* forEach calls the next entry's listener, which reads get() and behaves as b;
\* an exception of the listener leaves forEach and emit.
listenerCall(ch, b) ==
    LET i == CHOOSE j \in pendingEntries(ch) : \A k \in pendingEntries(ch) : j <= k
        ch1 == [ch EXCEPT !.pass.pos = i + 1,
                          !.pass.called = @ \cup {ch.listeners[i]},
                          !.pass.seen = @ \cup {ch.value}]
    IN IF b.do = "throw"
       THEN [ch1 EXCEPT !.pass.active = FALSE, !.pass.thrown = TRUE,
                        !.listeners = compact(@), !.result = "threw"]
       ELSE IF b.do = "subscribe" THEN advance(chSubscribe(ch1, b.l))
       ELSE IF b.do = "remove" THEN advance(chRemove(ch1, b.i))
       ELSE advance(ch1)

\* A caller outside any emit subscribes listener l.
SubscribeAs(c, l) ==
    /\ ~channel[c].pass.active /\ Len(channel[c].removers) < MaxRegs
    /\ channel' = [channel EXCEPT ![c] = chSubscribe(@, l)]
    /\ UNCHANGED <<flow, runner>>

Subscribe(c) == \E l \in Listeners : SubscribeAs(c, l)

\* A caller outside any emit calls the removal function i.
RemoveAs(c, i) ==
    /\ ~channel[c].pass.active /\ i \in 1..Len(channel[c].removers)
    /\ channel' = [channel EXCEPT ![c] = chRemove(@, i)]
    /\ UNCHANGED <<flow, runner>>

Remove(c) == \E i \in 1..MaxRegs : RemoveAs(c, i)

\* emit(u) is called.
EmitAs(c, u) ==
    /\ ~channel[c].pass.active
    /\ channel' = [channel EXCEPT ![c] = emitBegin(@, u)]
    /\ UNCHANGED <<flow, runner>>

Emit(c) == \E u \in Updaters : EmitAs(c, u)

\* The running emit calls its next listener.
ListenerCallAs(c, b) ==
    /\ channel[c].pass.active
    /\ channel' = [channel EXCEPT ![c] = listenerCall(@, b)]
    /\ UNCHANGED <<flow, runner>>

ListenerCall(c) == \E b \in Behaviours(channel[c]) : ListenerCallAs(c, b)

InitChannel ==
    /\ flow = defineFlow(UiSteps, "ask", {})
    /\ \E initial \in ChanVals : channel = [c \in {"A"} |-> createFlowChannel(initial)]
    /\ runner = <<>>

NextChannel ==
    \/ \E c \in Chans : Subscribe(c)
    \/ \E c \in Chans : Remove(c)
    \/ \E c \in Chans : Emit(c)
    \/ \E c \in Chans : ListenerCall(c)

SpecChannel == InitChannel /\ [][NextChannel]_vars

\* ---------------------------------------------------------------- claims
Steady(R) == R.isMountedRef /\ ~R.effectsDue

\* C1: when an onOutput (of a UI step or of an action step) or a channel
\* resolver returns nothing or a name that is no key of flow.steps (a name
\* found nowhere, or the name of a member every object inherits), the runner's
\* currentStep is left as it was and no step change is requested: only a
\* re-evaluation is queued, and the re-evaluation of a runner with no step
\* change requested keeps currentStep.
C1_InvalidNextKeepsStep ==
    [][\A r \in Runners :
         LET R == runner[r] IN
         /\ \A t \in BagToSet(R.tasks), res \in {Void, "missingStep"} \cup Inherited :
               (OutputSettleAs(r, t, res, "none") \/ ResolverSettleAs(r, t, res))
                  => /\ runner'[r].currentStep = R.currentStep
                     /\ runner'[r].pend.step = R.pend.step
                     /\ R.isMountedRef => runner'[r].pend # NoPend
         /\ (Render(r) /\ R.pend.step = NoStep)
               => runner'[r].currentStep = R.currentStep]_vars

\* A stay-on-step update is queued: some callback returned void or an unknown name.
C1_Witness ==
    \E r \in Runners : runner[r].pend.dirty /\ runner[r].pend.step = NoStep

\* C2: an action step's action is started at most once per occurrence of the
\* step as current step, however often the runner is re-evaluated meanwhile
\* (channel emissions, data re-renders, busy changes, a transition naming the
\* same step); once the effects of the occurrence have run it has been started
\* exactly once, unless the step's input threw before the call.
C2_ActionOncePerOccurrence ==
    \A r \in Runners :
        LET R == runner[r] IN
        /\ R.occ # "again"
        /\ (Steady(R) /\ isActionStep(R.currentStep)) => R.occ \in {"ran", "threw"}

\* An action step is still current after its action ran and settled and the
\* runner was re-evaluated: the action is not in flight and is not restarted.
C2_Witness ==
    \E r \in Runners :
        LET R == runner[r] IN
        /\ Steady(R) /\ isActionStep(R.currentStep) /\ R.occ = "ran"
        /\ R.tasks = EmptyBag /\ R.pend = NoPend /\ ~R.busy

\* C3 (as claimed): for one runner no two step callbacks (action, onOutput) are
\* in execution at the same time.
callbacks(R) == {t \in BagToSet(R.tasks) : t.kind \in {"action", "ui"}}
nCallbacks(R) == BagCardinality([t \in callbacks(R) |-> R.tasks[t]])
C3_CallbacksSerialized == \A r \in Runners : nCallbacks(runner[r]) <= 1

\* C4 (as claimed): while the task of an action step started by a mounted runner
\* has not settled, busy is true.
C4_BusyWhileInFlight ==
    \A r \in Runners :
        LET R == runner[r] IN
        (R.isMountedRef /\ \E t \in BagToSet(R.tasks) : t.kind = "action") => busyNow(R)

\* C5: when the input or the action of an action step, or the onOutput of a step
\* of either kind, throws or rejects, the invocation ends there: no step change
\* and no state update is queued, currentStep is as before, no further callback
\* of the invocation is called, and for an action step of a mounted runner
\* busy is set to false.
halted(r, n) ==
    /\ runner'[r].currentStep = runner[r].currentStep
    /\ runner'[r].pend.step = runner[r].pend.step
    /\ runner'[r].pend.dirty = runner[r].pend.dirty
    /\ nTasks(runner'[r]) = n
C5_ErrorsHaltInvocation ==
    [][\A r \in Runners :
         LET R == runner[r] IN
         /\ \A t \in BagToSet(R.tasks) :
               /\ ActionSettleAs(r, t, FALSE, "none")
                     => halted(r, nTasks(R) - 1) /\ (R.isMountedRef => runner'[r].pend.busy = "F")
               /\ OutputSettleAs(r, t, "throw", "none")
                     => /\ halted(r, nTasks(R) - 1)
                        /\ (R.isMountedRef /\ t.kind = "action") => runner'[r].pend.busy = "F"
         /\ RunEffectsAs(r, MaxTasks + 1, TRUE)
               => halted(r, nTasks(R)) /\ runner'[r].pend.busy = "F"]_vars

\* The action of the current action step ran and its invocation has ended
\* without queueing a state update: it failed, and busy is being reset.
C5_Witness ==
    \E r \in Runners :
        LET R == runner[r] IN
        /\ R.isMountedRef /\ isActionStep(R.currentStep) /\ R.occ = "ran"
        /\ R.tasks = EmptyBag /\ ~R.pend.dirty /\ R.busy /\ R.pend.busy = "F"

\* C6 (as claimed): a channel emission calls the resolver of a bound key with
\* the runner's currentStep, domain and internal as they are at that emission.
created(r) == {t \in BagToSet(runner'[r].tasks) :
                 CopiesIn(t, runner'[r].tasks) > CopiesIn(t, runner[r].tasks)}
C6_ResolverSeesCurrentState ==
    [][\A c \in Chans, v \in ChanVals :
         ChannelEmitAs(c, MaxTasks + 1, v)
            => \A r \in Runners : \A t \in created(r) :
                  t.phase = "resolver"
                     => /\ t.step = runner[r].currentStep
                        /\ runner[r].objs[t.data] = runner[r].objs[runner[r].data]]_vars

\* C7: when the resolver called for an emission settles on a mounted runner, a
\* returned key of flow.steps is queued as the new current step, and a void
\* result queues only a re-evaluation; the re-evaluation makes the queued step
\* current (or keeps currentStep when none is queued) and a UI step's input is
\* computed from the channels' values at that time.
C7_ResolverResultApplied ==
    [][\A r \in Runners :
         LET R == runner[r] IN
         /\ \A t \in BagToSet(R.tasks) :
               /\ \A res \in StepNames :
                     (ResolverSettleAs(r, t, res) /\ R.isMountedRef)
                        => runner'[r].pend.dirty /\ runner'[r].pend.step = res
               /\ (ResolverSettleAs(r, t, Void) /\ R.isMountedRef)
                     => /\ runner'[r].pend.tick
                        /\ runner'[r].pend.step = R.pend.step
                        /\ runner'[r].pend.dirty = R.pend.dirty
                        /\ runner'[r].currentStep = R.currentStep
         /\ Render(r)
               => /\ runner'[r].currentStep =
                        (IF R.pend.dirty /\ R.pend.step # NoStep THEN R.pend.step
                         ELSE R.currentStep)
                  /\ runner'[r].view.kind = "ui"
                        => \A k \in KeysOf(R.resolvedChannelsRef) :
                              runner'[r].view.input.seen[k] = get(R.resolvedChannelsRef.m[k])]_vars

\* On an action step whose input threw (so none of its callbacks could ask for
\* it), a step change to a UI step is queued: a resolver returned that step.
C7_Witness ==
    \E r \in Runners :
        LET R == runner[r] IN
        /\ R.isMountedRef /\ isActionStep(R.currentStep) /\ R.occ = "threw"
        /\ R.tasks = EmptyBag /\ R.pend.dirty /\ R.pend.step = "ask"

\* C8: an emission on a channel the runner is subscribed to under keys without
\* resolver only forces a re-evaluation: currentStep, the domain and internal
\* objects and their fields, busy and every queued update are as before; and the
\* re-evaluation it forces keeps currentStep, domain, internal and busy and
\* computes a UI step's input from the channel's value at that time.
C8_EmissionOnlyReRenders ==
    [][\A r \in Runners :
         LET R == runner[r] IN
         /\ \A c \in Chans, v \in ChanVals :
               (/\ channel'[c].value = v
                /\ ChannelEmitAs(c, MaxTasks + 1, v)
                /\ notified(channel[c].listeners, r) # {}
                /\ notified(channel[c].listeners, r) \cap channelTransitions = {})
                  => runner'[r] = [R EXCEPT !.pend.tick = TRUE]
         /\ (R.pend = [NoPend EXCEPT !.tick = TRUE] /\ Render(r))
               => /\ runner'[r].currentStep = R.currentStep
                  /\ runner'[r].data = R.data
                  /\ runner'[r].objs = R.objs
                  /\ runner'[r].busy = R.busy
                  /\ runner'[r].tasks = R.tasks
                  /\ runner'[r].view.kind = "ui"
                        => \A k \in KeysOf(R.resolvedChannelsRef) :
                              runner'[r].view.input.seen[k] = get(R.resolvedChannelsRef.m[k])]_vars

\* After an emission of a new value a re-evaluation, and nothing else, is queued
\* on a runner whose callbacks have assigned to its data.
C8_Witness ==
    \E r \in Runners :
        LET R == runner[r] IN
        /\ R.isMountedRef /\ R.pend = [NoPend EXCEPT !.tick = TRUE]
        /\ \E k \in KeysOf(R.subDeps) :
              /\ k \notin channelTransitions
              /\ R.view.kind = "ui"
              /\ R.view.input.seen[k] # get(R.subDeps.m[k])
        /\ R.objs[R.data] # ZeroData

\* C9: an emit on a channel on which two runners have listeners queues, in that
\* one step, a re-evaluation or a resolver call on each of them and changes
\* neither's currentStep or data; an input computed by a later evaluation reads
\* the channel's value of that time; and a step of one runner (evaluation,
\* effects, a resolver settling) leaves the other runner as it was.
C9_SharedChannelDelivery ==
    [][/\ \A c \in Chans, v \in ChanVals :
            (channel'[c].value = v /\ ChannelEmitAs(c, MaxTasks + 1, v))
               => \A r \in {l.r : l \in channel[c].listeners} :
                     /\ runner'[r].pend.tick \/ nTasks(runner'[r]) > nTasks(runner[r])
                     /\ runner'[r].currentStep = runner[r].currentStep
                     /\ runner'[r].data = runner[r].data
                     /\ runner'[r].objs = runner[r].objs
       /\ \A r \in Runners :
            /\ (runner'[r].view.kind = "ui" /\ runner'[r].effectsDue /\ ~runner[r].effectsDue
                   /\ Render(r))
                  => \A k \in KeysOf(runner'[r].resolvedChannelsRef) :
                        runner'[r].view.input.seen[k] = get(runner'[r].resolvedChannelsRef.m[k])
            /\ (\E q \in Runners \ {r} : runner'[q] # runner[q])
                  => ~(Render(r) \/ RunEffects(r, MaxTasks + 1) \/ ResolverSettle(r))]_vars

\* Two runners on different steps each hold a queued reaction to the emission
\* of a value neither has rendered yet.
C9_Witness ==
    /\ Cardinality(Runners) = 2
    /\ \A r \in Runners :
          LET R == runner[r] IN
          /\ R.isMountedRef /\ (R.pend.tick \/ nTasks(R) > 0)
          /\ \E k \in KeysOf(R.subDeps) : R.view.input.seen[k] # get(R.subDeps.m[k])
    /\ \E r \in Runners, q \in Runners : runner[r].currentStep # runner[q].currentStep

\* C10: under the sticky strategy a key that is bound and is in the next channel
\* map keeps its channel instance, whatever instance that map supplies for it;
\* an emission on a channel that is no bound instance of the runner (so on a
\* later instance supplied for a bound key) leaves the runner as it was, and an
\* emission on the instance the runner subscribed to for a key queues a
\* re-evaluation or the key's resolver.
C10_StickyKeepsFirstInstance ==
    [][\A r \in Runners :
         LET R == runner[r]
             bound == {R.subDeps.m[k] : k \in KeysOf(R.subDeps)}
         IN
         /\ \A k \in KeysOf(R.resolvedChannelsRef) \cap KeysOf(runner'[r].props.eventChannels) :
               runner'[r].props.strategy = "sticky"
                  => runner'[r].resolvedChannelsRef.m[k] = R.resolvedChannelsRef.m[k]
         /\ \A c \in Chans, v \in ChanVals :
               (channel'[c].value = v /\ ChannelEmitAs(c, MaxTasks + 1, v))
                  => IF c \in bound
                     THEN runner'[r].pend.tick \/ nTasks(runner'[r]) > nTasks(R)
                     ELSE runner'[r] = R]_vars

\* The parent has supplied instance B for a key bound to A and B has emitted;
\* the runner is still bound and subscribed to A, and an emission of A that it
\* has not rendered has queued a re-evaluation.
C10_Witness ==
    \E r \in Runners, k \in Keys :
        LET R == runner[r] IN
        /\ R.isMountedRef /\ R.props.strategy = "sticky"
        /\ R.props.eventChannels.m[k] = "B"
        /\ R.resolvedChannelsRef.m[k] = "A" /\ R.subDeps.m[k] = "A"
        /\ "B" \notin {R.subDeps.m[j] : j \in Keys}
        /\ get("B") = 1
        /\ R.pend.tick /\ R.view.input.seen[k] # get("A")

\* The listeners runner r has on channel c.
held(r, c) == {l \in channel[c].listeners : l.r = r}

\* C11: under the replace strategy, after every evaluation of a mounted runner
\* the instance bound to each key is the one the current channel map supplies
\* for it, and the input of that evaluation has read that instance; once the
\* effects of the evaluation have run the runner's listeners are exactly one per
\* key on the supplied instance, so none is left on a replaced instance.
C11_ReplaceFollowsLatest ==
    /\ [](\A r \in Runners :
            LET R == runner[r] IN
            (R.isMountedRef /\ R.props.strategy = "replace")
               => /\ \A k \in Keys : R.resolvedChannelsRef.m[k] = R.props.eventChannels.m[k]
                  /\ ~R.effectsDue
                        => \A c \in Chans : held(r, c) = listenersOf(r, R.props.eventChannels, c))
    /\ [][\A r \in Runners :
            (/\ runner'[r].props.strategy = "replace"
             /\ runner'[r].effectsDue /\ ~runner[r].effectsDue
             /\ runner'[r].view.kind = "ui")
               => \A k \in KeysOf(runner'[r].props.eventChannels) :
                     runner'[r].view.input.seen[k] = get(runner'[r].props.eventChannels.m[k])]_vars

\* Under replace, instance B was supplied for a key that was bound to A, B has
\* emitted and the runner, subscribed to B and no longer to A, has a
\* re-evaluation queued by that emission.
C11_Witness ==
    \E r \in Runners, k \in Keys :
        LET R == runner[r] IN
        /\ R.isMountedRef /\ R.props.strategy = "replace" /\ ~R.effectsDue
        /\ R.props.eventChannels.m[k] = "B"
        /\ held(r, "B") # {} /\ held(r, "A") = {}
        /\ get("A") = 1
        /\ R.pend.tick /\ R.view.input.seen[k] # get("B")

\* C12: when an evaluation of a mounted runner is given the channel map (same
\* keys, same instances) and strategy of the evaluation before it, the resolved
\* map is the previous resolved map object, so the subscription effect's
\* dependencies are unchanged; and the effects that follow an evaluation with
\* unchanged dependencies call no subscribe and no unsubscribe: every channel's
\* listeners, and what they close over, stay as they were.
C12_DedupKeepsSubscriptions ==
    [][\A r \in Runners :
         LET R == runner[r] IN
         /\ (/\ runner'[r].effectsDue /\ ~R.effectsDue
             /\ runner'[r].props = R.props)
               => /\ runner'[r].resolvedChannelsRef = R.resolvedChannelsRef
                  /\ ~subEffectDue(runner'[r])
         /\ (/\ R.effectsDue /\ ~subEffectDue(R)
             /\ \E inputThrows \in BOOLEAN : RunEffectsAs(r, MaxTasks + 1, inputThrows))
               => /\ \A c \in Chans : held(r, c)' = held(r, c)
                  /\ runner'[r].subDeps = R.subDeps
                  /\ runner'[r].subClosure = R.subClosure]_vars

\* A subscribed runner has been evaluated again with an equal channel map whose
\* instance for a key differs from the bound one (so the candidate is a new
\* object), and its subscription effect is not due.
C12_Witness ==
    \E r \in Runners, k \in Keys :
        LET R == runner[r] IN
        /\ R.isMountedRef /\ R.effectsDue /\ ~subEffectDue(R)
        /\ R.props.eventChannels.m[k] = "B" /\ R.resolvedChannelsRef.m[k] = "A"
        /\ held(r, "A") = listenersOf(r, R.resolvedChannelsRef, "A")
        /\ R.pend = NoPend

heldFor(r, k) == UNION {{[c |-> c, l |-> l] : l \in {x \in held(r, c) : x.key = k}} : c \in Chans}

\* C14: once the effects of its last evaluation have run, a mounted runner holds
\* for each key of its resolved map exactly one listener, on the instance bound
\* to that key, and no listener for any other key or on any other instance; the
\* effects change the runner's listeners only when the resolved map's identity
\* changed, and then no listener of the previous map is left unless the new map
\* binds the same key to the same instance.
C14_SubscriptionsMatchResolvedMap ==
    /\ [](\A r \in Runners :
            LET R == runner[r] IN
            (R.isMountedRef /\ ~R.effectsDue)
               => \A k \in Keys :
                     IF k \in KeysOf(R.resolvedChannelsRef)
                     THEN heldFor(r, k) = {[c |-> R.resolvedChannelsRef.m[k],
                                            l |-> [r |-> r, key |-> k]]}
                     ELSE heldFor(r, k) = {})
    /\ [][\A r \in Runners :
            LET R == runner[r] IN
            (R.isMountedRef /\ runner'[r].isMountedRef)
               => IF R.effectsDue /\ ~runner'[r].effectsDue /\ subEffectDue(R)
                  THEN \A c \in Chans : held(r, c)' = listenersOf(r, R.resolvedChannelsRef, c)
                  ELSE \A c \in Chans : held(r, c)' = held(r, c)]_vars

\* After several map updates a runner's subscriptions have settled on a map
\* that binds both keys, one of them to an instance other than the one the
\* parent now supplies for it.
C14_Witness ==
    \E r \in Runners :
        LET R == runner[r] IN
        /\ R.isMountedRef /\ ~R.effectsDue
        /\ KeysOf(R.resolvedChannelsRef) = Keys
        /\ \E k \in Keys : R.resolvedChannelsRef.m[k] # R.props.eventChannels.m[k]
        /\ \A k \in Keys : Cardinality(heldFor(r, k)) = 1

\* C15 (as claimed): the listeners an emit has called when it returns are
\* exactly those subscribed when it began.
C15_SnapshotPass ==
    \A c \in Chans :
        channel[c].result = "returned" => channel[c].pass.called = channel[c].pass.began

\* C16 (as claimed): an emit during which a listener threw has returned
\* normally, with every listener subscribed at its start called.
C16_EmitSurvivesListener ==
    \A c \in Chans :
        channel[c].pass.thrown
           => /\ channel[c].result = "returned"
              /\ channel[c].pass.began \subseteq channel[c].pass.called

\* C17: get() is the initial value until the first emit; an emit(u) makes it u,
\* or u(previous value) when u is a function, before any listener is called, so
\* every listener of the pass that reads get() reads that value; and nothing
\* but an emit changes it.
C17_GetLatestCommitted ==
    /\ [](\A c \in Chans :
            /\ channel[c].result = "none" => get(c) = channel[c].initial
            /\ channel[c].pass.seen \subseteq {get(c)})
    /\ [][\A c \in Chans :
            /\ \A u \in Updaters : EmitAs(c, u) => get(c)' = applyUpdate(u, get(c))
            /\ (channel[c].pass.active \/ Subscribe(c) \/ Remove(c)) => get(c)' = get(c)]_vars

\* An emit has returned after its listeners read, during the pass, a value that
\* differs from the initial one.
C17_Witness ==
    \E c \in Chans :
        /\ channel[c].result = "returned" /\ channel[c].pass.called = Listeners
        /\ get(c) # channel[c].initial /\ channel[c].pass.seen = {get(c)}

\* C18 (as claimed): calling a removal function again changes nothing, and
\* calling a removal function leaves the listener of every other registration
\* whose removal function was never called registered.
C18_IndependentRegistrations ==
    [][\A c \in Chans : \A i \in 1..Len(channel[c].removers) :
          RemoveAs(c, i)
             => /\ channel[c].removers[i].calls > 0
                      => channel'[c].listeners = channel[c].listeners
                /\ \A j \in 1..Len(channel[c].removers) \ {i} :
                      channel[c].removers[j].calls = 0
                         => channel[c].removers[j].l \in entries(channel'[c].listeners)]_vars

\* C19 (as claimed): defineFlow throws, and yields no definition, whenever
\* options.start is falsy or no key of steps, and otherwise returns the
\* definition carrying start, steps, channelTransitions and createInternalData.
C19_DefineFlowValidatesStart ==
    [][\A stepMap \in StepMaps, options \in Options :
          DefineAs(stepMap, options)
             => IF options.start = "" \/ options.start \notin DOMAIN stepMap
                THEN flow' = Threw
                ELSE flow' = [steps |-> stepMap, start |-> options.start,
                              channelTransitions |-> options.channelTransitions,
                              createInternalData |-> options.createInternalData]]_vars

\* C20: creation leaves the runner on flow.start, not busy, with domain holding
\* the fields of the caller's initialData and internal those of the object
\* createInternalData returned (none without a factory), in objects of its own:
\* an assignment made outside to the field of either original changes no data
\* object of the runner, an assignment made by a step callback changes neither
\* original, and an initialData supplied by a later render leaves the runner's
\* data as it was.
C20_CreationCopiesData ==
    [][/\ \A v \in DataVals :
             MountAs(PropsOf(Undefined, "sticky", v))
                => LET R2 == runner'[1] IN
                   /\ R2.currentStep = flow.start
                   /\ R2.busy = FALSE
                   /\ read(R2, R2.data) =
                         [domain |-> v,
                          internal |-> IF flow.createInternalData # NoFactory THEN 1 ELSE 0]
       /\ \A r \in Runners :
             LET R == runner[r] IN
             /\ \A part \in OuterParts :
                   CallerAssignAs(r, part)
                      => \A vid \in InUse(R) : read(runner'[r], vid) = read(R, vid)
             /\ \/ runner'[r].outer = R.outer
                \/ \A t \in BagToSet(R.tasks), mut \in Muts :
                      /\ \A res \in Results : ~OutputSettleAs(r, t, res, mut)
                      /\ \A ok \in BOOLEAN : ~ActionSettleAs(r, t, ok, mut)
             /\ \/ /\ read(runner'[r], runner'[r].data) = read(R, R.data)
                   /\ runner'[r].outer = R.outer
                \/ \A v \in DataVals : ~SetInitialDataAs(r, v)]_vars

\* A runner created with a factory whose data and both originals have since
\* been assigned to, and which has been rendered with another initialData.
C20_Witness ==
    \E r \in Runners :
        LET R == runner[r] IN
        /\ R.isMountedRef /\ flow.createInternalData # NoFactory
        /\ R.outer.initialData # read(R, R.data).domain
        /\ R.outer.created # read(R, R.data).internal
        /\ R.props.initialData # read(R, R.data).domain

Evaluated(r) ==
    /\ runner[r].isMountedRef /\ ~runner[r].effectsDue
    /\ runner'[r].isMountedRef /\ runner'[r].effectsDue

preserving(R) ==
    /\ R.isMountedRef /\ isActionStep(R.currentStep)
    /\ steps[R.currentStep].render = "preserve-previous"

uiTasks(R) == BagCardinality([t \in {u \in BagToSet(R.tasks) : u.kind = "ui"} |-> R.tasks[t]])

\* C22: while an action step that preserves the previous view is current, the
\* view on screen is the view of the UI step that was current last; every
\* evaluation computes that step's input anew from the data and channel values
\* of the evaluation; and emitting through the handle of that view does
\* nothing: no onOutput is called for it and currentStep, domain and internal
\* stay as they are.
C22_PreservePreviousIsInert ==
    /\ [](\A r \in Runners :
            LET R == runner[r] IN
            (preserving(R) /\ R.previousUiStepRef # NoStep)
               => /\ R.view.kind = "inert"
                  /\ R.view.step = R.previousUiStepRef
                  /\ steps[R.view.step].view)
    /\ [][\A r \in Runners :
            LET R == runner[r]
                R2 == runner'[r]
            IN /\ (Evaluated(r) /\ preserving(R2) /\ ~isActionStep(R.currentStep))
                     => R2.view.kind = "inert" /\ R2.view.step = R.currentStep
               /\ (Evaluated(r) /\ preserving(R2) /\ R.view.kind = "inert")
                     => /\ R2.view.step = R.view.step
                        /\ R2.view.input = inputOf(read(R2, R2.data),
                                                   R2.resolvedChannelsRef,
                                                   [c \in Chans |-> channel'[c].value])
               /\ EmitInert(r) => runner' = runner
               /\ (R.view.kind = "inert" /\ R2.view.kind = "inert")
                     => uiTasks(R2) <= uiTasks(R)]_vars

\* The preserved view of a UI step is on screen with an input computed after
\* the action assigned to domain, while the action step's onOutput is in flight.
C22_Witness ==
    \E r \in Runners :
        LET R == runner[r] IN
        /\ preserving(R) /\ R.view.kind = "inert" /\ ~R.effectsDue
        /\ R.view.input.data.domain = 1 /\ R.view.input.seen["counter"] = 1
        /\ \E t \in BagToSet(R.tasks) : t.phase = "onOutput" /\ t.kind = "action"

\* The action of the current occurrence of the current step has not settled:
\* it has not been started yet, or its task is in flight.
actionPending(R) ==
    \/ R.occ = "idle"
    \/ \E t \in BagToSet(R.tasks) : t.kind = "action" /\ t.phase = "action" /\ t.step = R.currentStep

\* C23: from the evaluation in which an action step with a fallback view becomes
\* current until its action settles, the view on screen is the fallback view
\* and it has received busy = true; and when the step's onOutput settles with a
\* step of the flow, that step is the one the next evaluation renders.
C23_FallbackShowsBusy ==
    /\ [](\A r \in Runners :
            LET R == runner[r] IN
            (/\ R.isMountedRef /\ isActionStep(R.currentStep)
             /\ steps[R.currentStep].render = "fallback"
             /\ actionPending(R))
               => R.view.kind = "fallback" /\ R.view.step = R.currentStep /\ R.view.busy)
    /\ [][\A r \in Runners :
            LET R == runner[r] IN
            /\ \A t \in BagToSet(R.tasks), res \in StepNames :
                  (R.isMountedRef /\ t.kind = "action" /\ OutputSettleAs(r, t, res, "none"))
                     => runner'[r].pend.step = res
            /\ (Render(r) /\ R.pend.step # NoStep)
                  => /\ runner'[r].currentStep = R.pend.step
                     /\ runner'[r].view.step = R.pend.step]_vars

studyTarget(R) == IF R.props.initialData = 1 THEN "show" ELSE "empty"
StudyEdges(R) == {<<"fetch", "decide">>, <<"decide", studyTarget(R)>>}

\* C24: a runner of the study flow started on fetch goes, with no outside
\* event, from fetch to decide and from decide to empty when its starting
\* items are empty and to show when they are not, and no other way; it leaves
\* an action step only after the step's action was started exactly once, and no
\* action is started twice in one occurrence of its step; eventually it is on
\* that UI step, showing its view, and stays there.
C24_StudyFlowEnds ==
    /\ [](\A r \in StudyRunners : runner[r].occ # "again")
    /\ [][\A r \in StudyRunners :
            runner'[r].currentStep # runner[r].currentStep
               => /\ <<runner[r].currentStep, runner'[r].currentStep>> \in StudyEdges(runner[r])
                  /\ runner[r].occ = "ran"]_vars
    /\ \A r \in StudyRunners :
          <>[](/\ runner[r].currentStep = studyTarget(runner[r])
               /\ runner[r].view.kind = "ui" /\ runner[r].view.step = studyTarget(runner[r])
               /\ runner[r].tasks = EmptyBag /\ ~runner[r].busy)

\* One runner has ended on empty and the other on show.
C24_Witness ==
    /\ runner[1].currentStep = "empty" /\ runner[1].props.initialData = 0
    /\ runner[2].currentStep = "show" /\ runner[2].props.initialData = 1
    /\ \A r \in StudyRunners : runner[r].view.kind = "ui" /\ ~runner[r].effectsDue

\* C25 (as claimed): when the onOutput of an action step's task settles on a
\* mounted runner, the step it returns is queued as the new current step if the
\* runner is still on the step the action was started for and no step change is
\* queued already; if the runner has meanwhile moved to another step, the
\* returned step is dropped and no step change is queued for it.
C25_StaleActionResultDropped ==
    [][\A r \in Runners :
         LET R == runner[r] IN
         \A t \in BagToSet(R.tasks), res \in StepNames :
            (R.isMountedRef /\ t.kind = "action" /\ OutputSettleAs(r, t, res, "none"))
               => IF t.step = R.currentStep /\ R.pend.step = NoStep
                  THEN runner'[r].pend.step = res
                  ELSE runner'[r].pend.step = R.pend.step]_vars

\* C26 (as claimed): an assignment that the action of an action step, or its
\* onOutput, makes to the field of domain when it completes on a mounted runner
\* is made to the runner's current data, also when the flow has moved on since
\* the action was started; and every evaluation computes its input from the
\* current data.
C26_LateMutationReachesCurrentData ==
    [][\A r \in Runners :
         LET R == runner[r]
             R2 == runner'[r]
         IN /\ \A t \in BagToSet(R.tasks) :
                  (/\ R.isMountedRef /\ t.kind = "action"
                   /\ \/ ActionSettleAs(r, t, TRUE, "domain")
                      \/ \E res \in Results : OutputSettleAs(r, t, res, "domain"))
                     => read(R2, R2.data).domain = 1 - read(R, R.data).domain
            /\ (Evaluated(r) /\ R2.view.kind = "ui")
                  => R2.view.input.data = read(R2, R2.data)]_vars

\* C27: every call of the emit of a UI step's output handle calls the step's
\* onOutput once, with the data of the evaluation the handle comes from, whether
\* or not an earlier onOutput is still in flight; each onOutput that settles on
\* a mounted runner with a step of the flow queues that step as the new current
\* step, replacing a step queued before, and one that settles with nothing or
\* with an unknown name leaves the queued step as it is; the next evaluation
\* makes the queued step current.
C27_EveryEmitHandled ==
    [][\A r \in Runners :
         LET R == runner[r]
             R2 == runner'[r]
         IN /\ EmitOutput(r, MaxTasks + 1)
                  => /\ created(r) = {Task("ui", "onOutput", R.view.step, R.data, "-")}
                     /\ nTasks(R2) = nTasks(R) + 1
            /\ \A t \in BagToSet(R.tasks) :
                  (R.isMountedRef /\ t.kind = "ui")
                     => /\ \A res \in StepNames :
                              OutputSettleAs(r, t, res, "none") => R2.pend.step = res
                        /\ \A res \in {Void, "missingStep"} :
                              OutputSettleAs(r, t, res, "none") => R2.pend.step = R.pend.step
            /\ (Render(r) /\ R.pend.step # NoStep) => R2.currentStep = R.pend.step]_vars

\* One onOutput has settled with a step, which is queued, while the onOutput of
\* another emit on the same view is still in flight.
C27_Witness ==
    \E r \in Runners :
        LET R == runner[r] IN
        /\ R.isMountedRef /\ R.pend.step # NoStep /\ R.view.kind = "ui"
        /\ \E t \in BagToSet(R.tasks) : t.kind = "ui" /\ t.step = R.view.step

\* C28 (as claimed): when the onOutput of a UI step settles with nothing on a
\* mounted runner, having assigned to a field of domain or internal, currentStep
\* and a queued step are left as they are and the runner's current data differs
\* from what it was in that field only, so assignments made before are kept;
\* and an evaluation computes the step's input from that data.
C28_VoidOutputsKeepMutations ==
    [][\A r \in Runners :
         LET R == runner[r]
             R2 == runner'[r]
             was == read(R, R.data)
         IN /\ \A t \in BagToSet(R.tasks) :
                  (R.isMountedRef /\ t.kind = "ui")
                     => /\ OutputSettleAs(r, t, Void, "domain")
                              => /\ R2.currentStep = R.currentStep /\ R2.pend.step = R.pend.step
                                 /\ read(R2, R2.data) = [was EXCEPT !.domain = 1 - @]
                        /\ OutputSettleAs(r, t, Void, "internal")
                              => /\ R2.currentStep = R.currentStep /\ R2.pend.step = R.pend.step
                                 /\ read(R2, R2.data) = [was EXCEPT !.internal = 1 - @]
            /\ (Evaluated(r) /\ R2.view.kind = "ui")
                  => /\ read(R2, R2.data) = was
                     /\ R2.view.input.data = was]_vars

\* C29 (as claimed): when the input called during an evaluation for the view of
\* a UI step, for a preserved view or for a fallback view throws, the runner
\* stays mounted, nothing is thrown to the rendering surface, and the runner is
\* on the step the evaluation was for, without a step change queued.
C29_InputErrorContained ==
    [][\A r \in Runners :
         RenderInputThrows(r)
            => /\ runner'[r].isMountedRef
               /\ runner'[r].view.kind # "crashed"
               /\ runner'[r].currentStep = rerender(runner[r], values).currentStep
               /\ runner'[r].pend.step = NoStep]_vars

\* C30: when a channel resolver throws or rejects, the runner stays mounted
\* with its view, the channels are untouched, the current step and the queued
\* step are what they were (no transition), and a mounted runner has a
\* re-evaluation queued.
C30_ResolverErrorIsNoTransition ==
    [][\A r \in Runners : \A t \in BagToSet(runner[r].tasks) :
         \/ ~ResolverSettleAs(r, t, "throw")
         \/ /\ channel' = channel
            /\ runner'[r].isMountedRef = runner[r].isMountedRef
            /\ runner'[r].view = runner[r].view
            /\ runner'[r].currentStep = runner[r].currentStep
            /\ runner'[r].pend.step = runner[r].pend.step
            /\ runner'[r].pend.dirty = runner[r].pend.dirty
            /\ runner[r].isMountedRef => runner'[r].pend.tick]_vars

\* A mounted runner subscribed under a key that has a resolver, whose resolver
\* has settled and left a re-evaluation queued without a step change.
C30_Witness ==
    \E r \in Runners :
        LET R == runner[r] IN
        /\ R.isMountedRef /\ R.tasks = EmptyBag
        /\ \A l \in channel["A"].listeners : l.r = r => l.key \in channelTransitions
        /\ \E l \in channel["A"].listeners : l.r = r
        /\ R.pend.tick /\ ~R.pend.dirty /\ R.pend.step = NoStep

\* C31 (as claimed): when the runner is evaluated with a flow definition whose
\* steps lack its current step, the runner stays mounted, hands the rendering
\* surface a view instead of throwing, and stays on its step.
C31_UnknownStepIsDegraded ==
    [][\A r \in Runners :
         SetFlowLacking(r)
            => /\ runner'[r].isMountedRef
               /\ runner'[r].view.kind # "crashed"
               /\ runner'[r].currentStep = runner[r].currentStep]_vars

\* C32: a descriptor is executed as an action step exactly when it carries
\* `action` and no `view`: every action in flight belongs to such a step, a
\* runner on a step carrying `view` (with or without `action`) shows that
\* step's view and has not executed it, and a runner whose effects have run on
\* a step carrying `action` and no `view` has executed it and shows no view of it.
C32_ActionIffNoView ==
    \A r \in Runners :
        LET R == runner[r]
            d == steps[R.currentStep]
        IN /\ \A t \in BagToSet(R.tasks) :
                 t.kind = "action" => steps[t.step].action /\ ~steps[t.step].view
           /\ (R.isMountedRef /\ d.view)
                 => R.view.kind = "ui" /\ R.view.step = R.currentStep /\ R.occ = "idle"
           /\ (R.isMountedRef /\ ~R.effectsDue /\ d.action /\ ~d.view)
                 => R.occ # "idle" /\ R.view.kind # "ui"

\* The runner has moved to the step carrying both `view` and `action`, its
\* effects have run, and nothing is in flight.
C32_Witness ==
    \E r \in Runners :
        LET R == runner[r] IN
        /\ R.isMountedRef /\ ~R.effectsDue /\ R.pend = NoPend
        /\ steps[R.currentStep] = BothStep
        /\ R.view.kind = "ui" /\ R.tasks = EmptyBag /\ R.occ = "idle"

\* The executions of action steps of runner R that are in phase p (awaiting
\* their action, or awaiting their onOutput).
inPhase(R, p) ==
    BagCardinality([t \in {x \in BagToSet(R.tasks) : x.kind = "action" /\ x.phase = p}
                       |-> R.tasks[t]])

\* C33: an execution of an action step calls action only from the effect, after
\* input returned; it calls onOutput only when its action settles successfully,
\* one onOutput for one action; when input throws neither is called, and when
\* the action fails onOutput is not called.
C33_InputActionOnOutputOrder ==
    [][\A r \in Runners :
         LET R == runner[r]
             S == runner'[r]
         IN /\ inPhase(S, "action") > inPhase(R, "action")
                  => /\ RunEffectsAs(r, MaxTasks + 1, FALSE)
                     /\ inPhase(S, "action") = inPhase(R, "action") + 1
                     /\ inPhase(S, "onOutput") = inPhase(R, "onOutput")
            /\ inPhase(S, "onOutput") > inPhase(R, "onOutput")
                  => /\ \E t \in BagToSet(R.tasks) : ActionSettleAs(r, t, TRUE, "none")
                     /\ inPhase(S, "onOutput") = inPhase(R, "onOutput") + 1
                     /\ inPhase(S, "action") = inPhase(R, "action") - 1
            /\ \/ ~RunEffectsAs(r, MaxTasks + 1, TRUE)
               \/ /\ inPhase(S, "action") = inPhase(R, "action")
                  /\ inPhase(S, "onOutput") = inPhase(R, "onOutput")
            /\ \A t \in BagToSet(R.tasks) :
                  \/ ~(t.kind = "action" /\ ActionSettleAs(r, t, FALSE, "none"))
                  \/ /\ inPhase(S, "onOutput") = inPhase(R, "onOutput")
                     /\ inPhase(S, "action") = inPhase(R, "action") - 1]_vars

\* The action of an action step has settled successfully and its onOutput has
\* been called and not settled yet.
C33_Witness ==
    \E r \in Runners :
        /\ runner[r].isMountedRef
        /\ inPhase(runner[r], "onOutput") = 1 /\ inPhase(runner[r], "action") = 0
        /\ runner[r].occ = "ran"

\* C34 (as claimed): the step a runner is on is a key of the steps of its flow
\* definition, in every reachable state.
C34_CurrentStepIsAKey ==
    \A r \in Runners : runner[r].currentStep \in StepNames

\* The execution of the action step runner R is on has ended (its input threw,
\* its action failed, or its onOutput settled) and no step other than the
\* step itself is queued.
endedInPlace(R) ==
    /\ R.isMountedRef /\ isActionStep(R.currentStep)
    /\ R.occ \in {"ran", "threw"}
    /\ inPhase(R, "action") = 0 /\ inPhase(R, "onOutput") = 0
    /\ R.pend.step \in {NoStep, R.currentStep}

\* C35 (as claimed): once the execution of an action step has ended without a
\* step change, busy is false, the action is not executed again while the
\* runner is on the step, and a step change is queued only by a channel
\* resolver settling with a key of steps.
C35_EndedActionStepStays ==
    [][\A r \in Runners :
         LET R == runner[r]
             S == runner'[r]
         IN endedInPlace(R)
               => /\ ~busyNow(R)
                  /\ S.occ \in {R.occ, "idle"}
                  /\ S.currentStep = R.currentStep
                  /\ S.pend.step \notin {NoStep, R.currentStep}
                        => \E t \in BagToSet(R.tasks), res \in StepNames :
                              t.phase = "resolver" /\ ResolverSettleAs(r, t, res)]_vars

\* C36 (as claimed): an evaluation with a channel map leaves the resolved map
\* with the keys of that map; under sticky a key of the map that the resolved
\* map did not have before is bound to the instance the map supplies for it,
\* and a key the map omits is unbound.
C36_ResolvedKeysFollowIncoming ==
    [][\A r \in Runners : \A map \in KeyMaps \ {Undefined}, strategy \in Strategies :
         \/ ~SetPropsAs(r, map, strategy)
         \/ LET prev == runner[r].resolvedChannelsRef
                resolved == runner'[r].resolvedChannelsRef
            IN /\ KeysOf(resolved) = KeysOf(map)
               /\ \A k \in KeysOf(map) :
                     (~prev.defined \/ prev.m[k] = NoChan) => resolved.m[k] = map.m[k]]_vars

\* C37: after an evaluation without channel map the resolved map is absent;
\* once the effects of such an evaluation have run the runner has no listener
\* on any channel; and an evaluation with a map that follows one without binds
\* every key of the map to the instance the map supplies, under either strategy.
C37_AbsentMapClearsBindings ==
    /\ [](\A r \in Runners :
            LET R == runner[r] IN
            /\ (R.isMountedRef /\ ~R.props.eventChannels.defined)
                  => ~R.resolvedChannelsRef.defined
            /\ (Steady(R) /\ ~R.resolvedChannelsRef.defined)
                  => \A c \in Chans : held(r, c) = {})
    /\ [][\A r \in Runners : \A map \in ChannelMaps \ {Undefined}, strategy \in Strategies :
            \/ runner[r].resolvedChannelsRef.defined
            \/ ~SetPropsAs(r, map, strategy)
            \/ runner'[r].resolvedChannelsRef = map]_vars

\* A runner subscribed to A under a key has been evaluated without channel map:
\* its resolved map is absent and the release of its listener is due.
C37_Witness ==
    \E r \in Runners, k \in Keys :
        LET R == runner[r] IN
        /\ R.isMountedRef /\ R.effectsDue
        /\ ~R.props.eventChannels.defined /\ ~R.resolvedChannelsRef.defined
        /\ R.props.strategy = "sticky"
        /\ R.subDeps.defined /\ R.subDeps.m[k] = "A" /\ held(r, "A") # {}

\* C38 (as claimed): an emission on a channel that the resolved map of a mounted
\* runner binds to a key queues a re-evaluation of the runner or calls the
\* key's resolver, also when it happens before the effects of the evaluation
\* that bound the channel have run.
C38_NoEmissionLost ==
    [][\A r \in Runners : \A c \in Chans, v \in ChanVals :
         LET R == runner[r] IN
         (/\ channel'[c].value = v
          /\ R.isMountedRef
          /\ \E k \in KeysOf(R.resolvedChannelsRef) : R.resolvedChannelsRef.m[k] = c
          /\ ChannelEmitAs(c, MaxTasks + 1, v))
            => runner'[r].pend.tick \/ created(r) # {}]_vars

\* What a settlement of task t leaves of a torn-down runner R, R0 being R
\* after the assignment the callback itself made to the object it was given:
\* the step, busy, the view and the (empty) update queue of R, and the fields
\* of the state's data object as in R0.
untouched(R, R0, S) ==
    /\ ~S.isMountedRef
    /\ S.currentStep = R.currentStep
    /\ S.busy = R.busy
    /\ S.pend = NoPend /\ R.pend = NoPend
    /\ S.view = R.view
    /\ read(S, S.data) = read(R0, R0.data)

\* C39: on a torn-down runner the settlement of an action, of an onOutput or of
\* a channel resolver, with any result, queues no update and changes neither
\* currentStep nor busy; the state's data object changes only by what the
\* callback itself assigns to it, and not at all when the callback was given
\* another object.
C39_LateCompletionAfterTeardown ==
    [][\A r \in Runners : \A t \in BagToSet(runner[r].tasks) :
         LET R == runner[r]
             S == runner'[r]
         IN \/ R.isMountedRef
            \/ /\ \A ok \in BOOLEAN, mut \in {"none", "domain"} :
                     \/ ~ActionSettleAs(r, t, ok, mut)
                     \/ /\ untouched(R, mutate(R, t.data, mut), S)
                        /\ t.data # R.data => read(S, S.data) = read(R, R.data)
               /\ \A res \in Results, mut \in {"none", "domain"} :
                     \/ ~OutputSettleAs(r, t, res, mut)
                     \/ /\ untouched(R, mutate(R, t.data, mut), S)
                        /\ t.data # R.data => read(S, S.data) = read(R, R.data)
               /\ \A res \in Results :
                     \/ ~ResolverSettleAs(r, t, res)
                     \/ untouched(R, R, S)]_vars

\* A torn-down runner whose action has settled and whose onOutput, called with
\* the action's output, is still in flight.
C39_Witness ==
    \E r \in Runners :
        LET R == runner[r] IN
        /\ ~R.isMountedRef /\ R.view = NoView
        /\ isActionStep(R.currentStep) /\ R.busy
        /\ inPhase(R, "onOutput") = 1

\* C40 (as claimed): on a runner that is in the rendered tree, also after its
\* effects were torn down and set up again, a key of steps returned by an
\* onOutput or by a channel resolver is queued as the new current step.
C40_WorksAfterEffectsRerun ==
    [][\A r \in Runners : \A t \in BagToSet(runner[r].tasks), res \in StepNames :
         \/ ~inTree(runner[r])
         \/ ~(OutputSettleAs(r, t, res, "none") \/ ResolverSettleAs(r, t, res))
         \/ runner'[r].pend.dirty /\ runner'[r].pend.step = res]_vars

====
